---- MODULE Spec2Model ----
(***************************************************************************)
(* A model of skt, the kernel CI pipeline driver (src/skt.py) and of the   *)
(* source tree manager it drives (src/skt/__init__.py).                    *)
(*                                                                         *)
(* Python values are modelled as records [kind, s]: kind is the Python     *)
(* type ("str", "int", "bool", "none") and s the text str() gives for the  *)
(* value, so that the int 0 and the string "0" are different values that   *)
(* str() maps to the same text.  Keys of cfg and of the rc file are the    *)
(* real key strings ("mergehead_00", "jobid_0", "tarpkg_x86_64").          *)
(***************************************************************************)
EXTENDS Naturals, Sequences, FiniteSets, TLC

(***************************************************************************)
(* Bounds of the model.                                                    *)
(***************************************************************************)
\* longest [state] section of an rc file given to load_config
MaxStateLen == 2
\* largest index used when enumerating indexed key names
MaxIdx == 2

(***************************************************************************)
(* Python values.                                                          *)
(***************************************************************************)
StrV(s) == [kind |-> "str", s |-> s]
IntV(n) == [kind |-> "int", s |-> ToString(n)]
BoolV(b) == [kind |-> "bool", s |-> IF b THEN "True" ELSE "False"]
None == [kind |-> "none", s |-> "None"]

\* str(v), as ConfigParser.write applies it to every value it writes
Str(v) == [kind |-> "str", s |-> v.s]

\* bool(v)
Truthy(v) ==
    CASE v.kind = "none" -> FALSE
      [] v.kind = "bool" -> v.s = "True"
      [] v.kind = "int"  -> v.s # "0"
      [] OTHER           -> v.s # ""

\* "%02d" % i  and  "%s" % i
Fmt02d(i) == IF i < 10 THEN "0" \o ToString(i) ELSE ToString(i)
FmtS(i) == ToString(i)

(***************************************************************************)
(* Key names.  name.startswith(p) is decided over the suffixes the model   *)
(* can produce: the index renderings and the architecture names.           *)
(***************************************************************************)
Arches == {"x86_64", "s390x"}
ArchFields == {"tarpkg", "buildconf", "buildurl", "cfgurl", "buildlog"}
IdxSuffixes == {Fmt02d(i) : i \in 0..MaxIdx} \cup {FmtS(i) : i \in 0..MaxIdx}
Suffixes == IdxSuffixes \cup Arches

StartsWith(name, p) == \E s \in Suffixes : name = p \o s

\* name.startswith(("tarpkg_", "buildconf_", "buildurl_", "cfgurl_", "buildlog_"))
IsArchKey(name) == \E f \in ArchFields : StartsWith(name, f \o "_")
\* name.split('_', 1)
SplitType(name) == CHOOSE f \in ArchFields : StartsWith(name, f \o "_")
SplitArch(name) == CHOOSE a \in Suffixes : name = SplitType(name) \o "_" \o a

(***************************************************************************)
(* Dictionaries with string keys, and the ordered sections of an rc file   *)
(* (a section is a sequence of <<option, value>> with distinct options,    *)
(* in file order).                                                         *)
(***************************************************************************)
Put(d, k, v) == [x \in DOMAIN d \cup {k} |-> IF x = k THEN v ELSE d[x]]
Get(d, k) == IF k \in DOMAIN d THEN d[k] ELSE None
EmptyDict == [x \in {} |-> None]

SecKeys(sec) == {sec[i][1] : i \in DOMAIN sec}
SecGet(sec, k) == sec[CHOOSE i \in DOMAIN sec : sec[i][1] = k][2]
\* a set that drops the other options of the section
SecSet_DropOthers(sec, k, v) == <<<<k, v>>>>
\* ConfigParser.set: an option already in the section keeps its place
SecSet(sec, k, v) ==
    IF k \in SecKeys(sec)
    THEN [i \in DOMAIN sec |-> IF sec[i][1] = k THEN <<k, v>> ELSE sec[i]]
    ELSE Append(sec, <<k, v>>)

\* ConfigParser.write followed by ConfigParser.read: every value as text
AsWritten(sec) == [i \in DOMAIN sec |-> <<sec[i][1], Str(sec[i][2])>>]
WriteFile(p) == [p EXCEPT !.state = AsWritten(p.state),
                          !.config = AsWritten(p.config)]

NoList == [has |-> FALSE, v |-> <<>>]
NoSet == [has |-> FALSE, v |-> {}]
\* a list.append that inserts at the front
ListAppend_Prepend(l, x) == [has |-> TRUE, v |-> <<x>> \o l.v]
ListAppend(l, x) == [has |-> TRUE, v |-> Append(l.v, x)]
SetAdd(s, x) == [has |-> TRUE, v |-> s.v \cup {x}]

(***************************************************************************)
(* save_state(cfg, state): state is a sequence of <<key, value>>.          *)
(* The result is the new cfg, the new parser and the new file.             *)
(***************************************************************************)
RECURSIVE UpdateCfg(_, _)
UpdateCfg(flat, state) ==
    IF state = <<>> THEN flat
    ELSE UpdateCfg(Put(flat, state[1][1], state[1][2]), Tail(state))

RECURSIVE SetOptions(_, _)
SetOptions(sec, state) ==
    IF state = <<>> THEN sec
    ELSE SetOptions(IF state[1][2] # None
                    THEN SecSet(sec, state[1][1], state[1][2])
                    ELSE sec,
                    Tail(state))

\* a save_state that updates cfg and leaves the file alone
save_state_MemoryOnly(c, p, d, state) ==
    [cfg |-> [c EXCEPT !.flat = UpdateCfg(c.flat, state)], parser |-> p, disk |-> d]
save_state(c, p, d, state) ==
    LET c1 == [c EXCEPT !.flat = UpdateCfg(c.flat, state)]
    IN  IF ~Truthy(Get(c1.flat, "state"))
        THEN [cfg |-> c1, parser |-> p, disk |-> d]
        ELSE LET p1 == [p EXCEPT !.hasState = TRUE,
                                 !.state = SetOptions(p.state, state)]
             IN  [cfg |-> c1, parser |-> p1, disk |-> WriteFile(p1)]

(***************************************************************************)
(* load_config(args): a is the parsed command line (vars(args)), f the rc  *)
(* file.                                                                   *)
(***************************************************************************)
\* the test without its "or cfg.get(name) == None" half
Unset_AbsentOnly(c, name) == name \notin DOMAIN c.flat
Unset(c, name) == name \notin DOMAIN c.flat \/ c.flat[name] = None

LoadStateItem(c, name, value) ==
    IF ~Unset(c, name) THEN c
    ELSE LET c1 ==
               CASE StartsWith(name, "jobid_") ->
                      [c EXCEPT !.jobs = SetAdd(c.jobs, value.s)]
                 [] StartsWith(name, "mergerepo_") ->
                      [c EXCEPT !.mergerepos = ListAppend(c.mergerepos, value.s)]
                 [] StartsWith(name, "mergehead_") ->
                      [c EXCEPT !.mergeheads = ListAppend(c.mergeheads, value.s)]
                 [] StartsWith(name, "localpatch_") ->
                      [c EXCEPT !.localpatches = ListAppend(c.localpatches, value.s)]
                 [] StartsWith(name, "patchwork_") ->
                      [c EXCEPT !.patchworks = ListAppend(c.patchworks, value.s)]
                 [] IsArchKey(name) ->
                      LET otype == SplitType(name)
                          oarch == SplitArch(name)
                          old == IF oarch \in DOMAIN c.archdata.v
                                 THEN c.archdata.v[oarch] ELSE EmptyDict
                      IN  [c EXCEPT !.archdata =
                              [has |-> TRUE,
                               v |-> Put(c.archdata.v, oarch,
                                         Put(old, otype, value))]]
                 [] OTHER -> c
         IN  [c1 EXCEPT !.flat = Put(c1.flat, name, value)]

RECURSIVE LoadStateSection(_, _)
LoadStateSection(c, items) ==
    IF items = <<>> THEN c
    ELSE LoadStateSection(LoadStateItem(c, items[1][1], items[1][2]),
                          Tail(items))

RECURSIVE LoadConfigSection(_, _)
LoadConfigSection(c, items) ==
    IF items = <<>> THEN c
    ELSE LoadConfigSection(
             IF Unset(c, items[1][1])
             THEN [c EXCEPT !.flat = Put(c.flat, items[1][1], items[1][2])]
             ELSE c,
             Tail(items))

\* key.rsplit('_', 1) over the options of [arches]: {arch}_{config|makeopts}
RECURSIVE LoadArches(_, _)
LoadArches(m, items) ==
    IF items = <<>> THEN m
    ELSE LET arch == items[1][1][1]
             ctype == items[1][1][2]
             old == IF arch \in DOMAIN m THEN m[arch] ELSE EmptyDict
         IN  LoadArches(Put(m, arch, Put(old, ctype, items[1][2])), Tail(items))

\* cfg = vars(args); cfg['_testcases'] = []
ArgsCfg(a) == [flat |-> a.flat,
               merge_ref |-> a.merge_ref,
               patchlist |-> a.patchlist,
               pw |-> a.pw,
               publisher |-> a.publisher,
               runner |-> a.runner,
               reporter |-> a.reporter,
               arches |-> NoList,
               jobs |-> NoSet,
               mergerepos |-> NoList,
               mergeheads |-> NoList,
               localpatches |-> NoList,
               patchworks |-> NoList,
               archdata |-> [has |-> FALSE, v |-> EmptyDict],
               testcases |-> <<>>]

load_config(a, f) ==
    LET c0 == ArgsCfg(a)
        c1 == IF Truthy(Get(c0.flat, "state")) /\ f.hasState
              THEN LoadStateSection(c0, f.state) ELSE c0
        c2 == IF f.hasConfig THEN LoadConfigSection(c1, f.config) ELSE c1
        c3 == IF f.publisher.has /\ ~c2.publisher.has
              THEN [c2 EXCEPT !.publisher = f.publisher] ELSE c2
        c4 == IF f.runner.has /\ ~c3.runner.has
              THEN [c3 EXCEPT !.runner = f.runner] ELSE c3
        c5 == IF f.reporter.has /\ ~c4.reporter.has
              THEN [c4 EXCEPT !.reporter = f.reporter] ELSE c4
        c6 == IF f.hasArches /\ ~c5.arches.has
              THEN [c5 EXCEPT !.arches =
                       [has |-> TRUE, v |-> LoadArches(EmptyDict, f.arches)]]
              ELSE c5
        c7 == [c6 EXCEPT !.merge_ref =
                  [has |-> TRUE, v |-> c6.merge_ref.v \o f.merges]]
    IN  c7

(***************************************************************************)
(* The command line: setup_parser's destinations and their defaults.       *)
(***************************************************************************)
Commands == {"merge", "build", "publish", "run", "report", "cleanup", "all"}

TopDests == {"workdir", "wipe", "junit", "verbose", "rc", "state", "_name"}
SubDests(cmd) ==
    CASE cmd = "merge"   -> {"baserepo", "ref"}
      [] cmd = "build"   -> {"baseconfig", "cfgtype", "makeopts"}
      [] cmd = "publish" -> {"tarpkg", "buildinfo"}
      [] cmd = "run"     -> {"buildurl", "krelease", "wait"}
      [] OTHER           -> {}
FlatDests(cmd) ==
    TopDests \cup
    (IF cmd = "all"
     THEN UNION {SubDests(c) : c \in Commands \ {"all"}}
     ELSE SubDests(cmd))

Default(cmd, dest) ==
    CASE dest \in {"wipe", "state", "wait"} -> BoolV(FALSE)
      [] dest = "verbose" -> IntV(0)
      [] dest = "rc"      -> StrV("~/.sktrc")
      [] dest = "_name"   -> StrV(cmd)
      [] OTHER            -> None

\* parser.parse_args(): given holds the options present on the command line
ParseArgs(cmd, given, lists) ==
    [cmd |-> cmd,
     flat |-> [d \in FlatDests(cmd) |->
                  IF d \in DOMAIN given THEN given[d] ELSE Default(cmd, d)],
     merge_ref |-> IF cmd \in {"merge", "all"} THEN lists.merge_ref ELSE NoList,
     patchlist |-> IF cmd \in {"merge", "all"} THEN lists.patchlist ELSE NoList,
     pw        |-> IF cmd \in {"merge", "all"} THEN lists.pw ELSE NoList,
     publisher |-> IF cmd \in {"publish", "all"} THEN lists.publisher ELSE NoList,
     runner    |-> IF cmd \in {"run", "all"} THEN lists.runner ELSE NoList,
     reporter  |-> IF cmd \in {"report", "all"} THEN lists.reporter ELSE NoList]

NoLists == [merge_ref |-> NoList, patchlist |-> NoList, pw |-> NoList,
            publisher |-> NoList, runner |-> NoList, reporter |-> NoList]

\* an rc file with no section
EmptyFile == [hasConfig |-> FALSE, config |-> <<>>,
              hasState |-> FALSE, state |-> <<>>,
              publisher |-> NoList, runner |-> NoList, reporter |-> NoList,
              hasArches |-> FALSE, arches |-> <<>>,
              merges |-> <<>>]

(***************************************************************************)
(* The state of one run of skt.py.                                         *)
(***************************************************************************)
VARIABLES
    args,      \* the parsed command line
    disk,      \* the rc file as it is on disk
    parser,    \* cfg['_parser'], the ConfigParser held in memory
    cfg,       \* the configuration dictionary
    retcode,   \* the module-level retcode
    pc,        \* where the run is
    loc,       \* the local variables of the running cmd_* function
    ktree,     \* the skt.ktree object of cmd_merge
    world,     \* what the collaborators will answer in this run
    files,     \* the local files that exist
    trace,     \* the calls made so far: save_state keys and collaborator calls
    exitcode   \* the exit status of the process, once it has exited

vars == <<args, disk, parser, cfg, retcode, pc, loc, ktree, world, files,
          trace, exitcode>>

Running == [exited |-> FALSE, code |-> 0]
Exited(code) == [exited |-> TRUE, code |-> code]
Unbound == [bound |-> FALSE, v |-> None]
Bound(v) == [bound |-> TRUE, v |-> v]
\* the locals of the cmd_* functions, and the runner object of cmd_run
NoLocals == [idx |-> 0, utypes |-> <<>>, head |-> Unbound,
             todo |-> {}, cfgurl |-> Unbound, jobs |-> {}]
NoTree == [wdir |-> "", mergelog |-> "", info |-> <<>>, commits |-> 0,
           dirty |-> FALSE, remotes |-> {}]
Event(op, a, b) == [op |-> op, a |-> a, b |-> b]

\* main: cfg = load_config(args)
LoadConfig ==
    /\ pc = "start"
    /\ cfg' = load_config(args, disk)
    /\ parser' = disk
    /\ pc' = "loaded"
    /\ UNCHANGED <<args, disk, retcode, loc, ktree, world, files, trace, exitcode>>

(***************************************************************************)
(* load_config on its own: every command line and rc file of the bounds.   *)
(***************************************************************************)
\* sequences of at most n elements of S
SeqsUpTo(S, n) == UNION {[1..m -> S] : m \in 0..n}
DistinctKeys(sec) == \A i, j \in DOMAIN sec : sec[i][1] = sec[j][1] => i = j

LoadStateOptions ==
    {<<"jobid_00", StrV("J:1")>>, <<"jobid_01", StrV("J:1")>>,
     <<"jobid_01", StrV("J:2")>>,
     <<"mergerepo_00", StrV("git://r1")>>, <<"mergerepo_01", StrV("git://r1")>>,
     <<"mergerepo_01", StrV("git://r2")>>,
     <<"mergehead_00", StrV("h1")>>, <<"localpatch_00", StrV("/p0")>>,
     <<"patchwork_00", StrV("http://pw/patch/1")>>,
     <<"tarpkg_x86_64", StrV("h1_x86_64.tar.gz")>>,
     <<"buildconf_x86_64", StrV("h1_x86_64.config")>>,
     <<"buildurl_s390x", StrV("http://url/h1_s390x.tar.gz")>>,
     <<"cfgurl_s390x", StrV("http://url/h1_s390x.config")>>,
     <<"buildlog_s390x", StrV("/w/build_s390x/build.log")>>,
     <<"workdir", StrV("/state")>>, <<"wait", StrV("True")>>,
     <<"basehead", StrV("h0")>>}
LoadConfigOptions ==
    {<<"workdir", StrV("/config")>>, <<"wait", StrV("1")>>,
     <<"basehead", StrV("hc")>>}

InitLoad ==
    /\ \E cmd \in {"merge", "run"}, st \in BOOLEAN, wd \in BOOLEAN :
         args = ParseArgs(cmd,
                          Put(IF wd THEN Put(EmptyDict, "workdir", StrV("/cli"))
                              ELSE EmptyDict,
                              "state", BoolV(st)),
                          NoLists)
    /\ \E ss \in {s \in SeqsUpTo(LoadStateOptions, MaxStateLen) : DistinctKeys(s)},
          cs \in {s \in SeqsUpTo(LoadConfigOptions, 1) : DistinctKeys(s)},
          hs \in BOOLEAN :
         /\ hs \/ ss = <<>>
         /\ disk = [EmptyFile EXCEPT !.hasState = hs, !.state = ss,
                                     !.hasConfig = cs # <<>>, !.config = cs]
    /\ parser = EmptyFile
    /\ cfg = ArgsCfg(args)
    /\ retcode = 0
    /\ pc = "start"
    /\ loc = NoLocals
    /\ ktree = NoTree
    /\ world = [baseOk |-> TRUE, gitFail |-> 0, localFail |-> 0, pwFail |-> 0,
                statefiles |-> <<>>]
    /\ files = {}
    /\ trace = <<>>
    /\ exitcode = Running

NextLoad == LoadConfig
SpecLoad == InitLoad /\ [][NextLoad]_vars

(***************************************************************************)
(* The stages.  Each action threads a record m = [cfg, parser, disk,       *)
(* trace] through the save_state calls of the step it models.              *)
(***************************************************************************)
Cur == [cfg |-> cfg, parser |-> parser, disk |-> disk, trace |-> trace]

Saves(state) == [i \in DOMAIN state |-> Event("save", state[i][1], state[i][2].s)]
SaveState(m, state) ==
    LET r == save_state(m.cfg, m.parser, m.disk, state)
    IN  [cfg |-> r.cfg, parser |-> r.parser, disk |-> r.disk,
         trace |-> m.trace \o Saves(state)]
Log(m, e) == [m EXCEPT !.trace = Append(m.trace, e)]

\* a cmd_all that calls cmd_cleanup before cmd_report
NextOfAll_CleanupFirst(stage, c) ==
    CASE stage = "merge"   -> "build_start"
      [] stage = "build"   -> "publish_start"
      [] stage = "publish" -> "run_start"
      [] stage = "run"     -> "cleanup"
      [] stage = "cleanup" -> IF Get(c.flat, "wait") = BoolV(TRUE)
                              THEN "report" ELSE "main_end"
      [] OTHER             -> "main_end"
\* a cmd_all that reports whether or not --wait was given
NextOfAll_AlwaysReport(stage, c) ==
    CASE stage = "merge"   -> "build_start"
      [] stage = "build"   -> "publish_start"
      [] stage = "publish" -> "run_start"
      [] stage = "run"     -> "report"
      [] stage = "report"  -> "cleanup"
      [] OTHER             -> "main_end"
\* cmd_all: the function called after stage
NextOfAll(stage, c) ==
    CASE stage = "merge"   -> "build_start"
      [] stage = "build"   -> "publish_start"
      [] stage = "publish" -> "run_start"
      [] stage = "run"     -> IF Get(c.flat, "wait") = BoolV(TRUE)
                              THEN "report" ELSE "cleanup"
      [] stage = "report"  -> "cleanup"
      [] OTHER             -> "main_end"

EntryOf(cmd) ==
    CASE cmd \in {"merge", "all"} -> "merge_checkout"
      [] cmd = "build"   -> "build_start"
      [] cmd = "publish" -> "publish_start"
      [] cmd = "run"     -> "run_start"
      [] cmd = "report"  -> "report"
      [] OTHER           -> "cleanup"

\* The end of a function wrapped by @junit: stage returned (raised = FALSE)
\* or raised.  Gives the next position, retcode, exit status and cfg.
junit(stage, c, rc, raised) ==
    LET on == Get(c.flat, "junit") # None
        rc1 == IF on /\ raised THEN 1 ELSE rc
        c1 == IF on
              THEN [c EXCEPT !.testcases =
                       Append(@, [name |-> stage,
                                  failure |-> raised \/ rc1 # 0,
                                  \* tc.add_failure_info: str(e), or
                                  \* "Step finished with retcode: %d"
                                  info |-> IF raised THEN "exception"
                                           ELSE IF rc1 # 0 THEN "retcode"
                                           ELSE ""])]
              ELSE c
    IN  IF raised /\ ~on
        THEN \* the exception leaves main: traceback, exit status 1
             [pc |-> "exit", retcode |-> rc, exitcode |-> Exited(1), cfg |-> c]
        ELSE [pc |-> IF args.cmd = "all" THEN NextOfAll(stage, c1)
                     ELSE "main_end",
              retcode |-> rc1, exitcode |-> Running, cfg |-> c1]

\* main: args.func(cfg)
Dispatch ==
    /\ pc = "loaded"
    /\ pc' = EntryOf(args.cmd)
    /\ UNCHANGED <<args, disk, parser, cfg, retcode, loc, ktree, world, files,
                   trace, exitcode>>

\* main, after args.func(cfg) has returned: the junit file, sys.exit(retcode)
MainExit ==
    /\ pc = "main_end"
    /\ pc' = "exit"
    /\ exitcode' = Exited(retcode)
    /\ files' = IF Get(cfg.flat, "junit") # None
                THEN files \cup {Get(cfg.flat, "junit").s \o "/"
                                 \o Get(cfg.flat, "_name").s \o ".xml"}
                ELSE files
    /\ UNCHANGED <<args, disk, parser, cfg, retcode, loc, ktree, world, trace>>

(***************************************************************************)
(* cmd_merge and the ktree it drives.                                      *)
(***************************************************************************)
Commit(n) == "h" \o ToString(n)
\* a get_commit that answers with a commit the tree is not at
HeadOf_Next(t) == Commit(t.commits + 1)
\* ktree.get_commit(): the commit the working tree is at
HeadOf(t) == Commit(t.commits)

\* ktree.__init__
ktree_init(c) ==
    LET wdir == IF Get(c.flat, "workdir") # None
                THEN Get(c.flat, "workdir").s ELSE "/tmp/tmpdir"
    IN  [wdir |-> wdir, mergelog |-> wdir \o "/merge.log",
         info |-> <<>>, commits |-> 0, dirty |-> FALSE,
         \* git remote set-url origin uri, or git remote add origin uri
         remotes |-> {<<"origin", Get(c.flat, "baserepo")>>}]

\* ktree.checkout: the tree sits at the base commit
checkout(t) ==
    [t EXCEPT !.info = Append(@, <<"base", Get(cfg.flat, "baserepo").s, Commit(0)>>)]

\* the URIs of the repositories to merge, as prefix/segment with an
\* optional ".git" and an optional trailing slash
UriPrefixes == {"git:/", "git://a", "git://b"}
UriStems == {"r1", "r2", "r3", "linux", "linux_"}
Uri(prefix, stem, dotgit, slash) ==
    prefix \o "/" \o stem \o (IF dotgit THEN ".git" ELSE "")
           \o (IF slash THEN "/" ELSE "")
\* uri.split('/')[-1].replace('.git', ''), or [-2] when uri ends with '/'
LastSegment(uri) ==
    CHOOSE stem \in UriStems :
        \E prefix \in UriPrefixes, dotgit \in BOOLEAN, slash \in BOOLEAN :
            uri = Uri(prefix, stem, dotgit, slash)
\* ktree.get_remote_url(remote): the URL of the remote, or None
get_remote_url(remotes, remote) ==
    IF \E r \in remotes : r[1] = remote
    THEN (CHOOSE r \in remotes : r[1] = remote)[2]
    ELSE None
\* while self.get_remote_url(rname) == uri: rname += '_'
RECURSIVE Bump(_, _, _)
Bump(remotes, rname, uri) ==
    IF get_remote_url(remotes, rname) = StrV(uri)
    THEN Bump(remotes, rname \o "_", uri)
    ELSE rname
\* ktree.getrname(uri)
getrname(remotes, uri) == Bump(remotes, LastSegment(uri), uri)
\* git remote add rname uri: fails, and is ignored, when rname exists
RemoteAdd(remotes, rname, uri) ==
    IF get_remote_url(remotes, rname) = None
    THEN remotes \cup {<<rname, StrV(uri)>>}
    ELSE remotes

\* what git answers to the commands of merge_git_ref
MergeOutcomes == {"ok", "fetch fails", "conflict", "conflict, reset fails"}
\* a merge_git_ref that records the merge before it has succeeded
merge_git_ref_RowFirst(t, uri, outcome) ==
    LET rname == getrname(t.remotes, uri)
        t0 == [t EXCEPT !.remotes = RemoteAdd(@, rname, uri)]
        t1 == [t0 EXCEPT !.info = Append(@, <<"git", uri, "head-of-" \o uri>>)]
        url == get_remote_url(t0.remotes, rname)
    IN  CASE outcome = "fetch fails" ->
               [tree |-> t0, retcode |-> 0, head |-> None, raised |-> TRUE,
                rname |-> rname, url |-> url]
          [] outcome = "conflict" ->
               [tree |-> t1, retcode |-> 1, head |-> None, raised |-> FALSE,
                rname |-> rname, url |-> url]
          [] outcome = "conflict, reset fails" ->
               [tree |-> [t1 EXCEPT !.dirty = TRUE], retcode |-> 0,
                head |-> None, raised |-> TRUE, rname |-> rname, url |-> url]
          [] OTHER ->
               [tree |-> [t1 EXCEPT !.commits = @ + 1], retcode |-> 0,
                head |-> StrV("head-of-" \o uri), raised |-> FALSE,
                rname |-> rname, url |-> url]
\* ktree.merge_git_ref(uri): [tree, retcode, head], or an exception
\* (retcode and head are then not returned)
merge_git_ref(t, uri, outcome) ==
    LET rname == getrname(t.remotes, uri)
        t0 == [t EXCEPT !.remotes = RemoteAdd(@, rname, uri)]
        \* git fetch -n rname: the URL the fetch goes to
        url == get_remote_url(t0.remotes, rname)
    IN  CASE outcome = "fetch fails" ->
               \* git fetch is outside the try block
               [tree |-> t0, retcode |-> 0, head |-> None, raised |-> TRUE,
                rname |-> rname, url |-> url]
          [] outcome = "conflict" ->
               \* git merge fails, git reset --hard
               [tree |-> t0, retcode |-> 1, head |-> None, raised |-> FALSE,
                rname |-> rname, url |-> url]
          [] outcome = "conflict, reset fails" ->
               \* git reset --hard fails inside the handler
               [tree |-> [t0 EXCEPT !.dirty = TRUE], retcode |-> 0,
                head |-> None, raised |-> TRUE, rname |-> rname, url |-> url]
          [] OTHER ->
               [tree |-> [t0 EXCEPT !.commits = @ + 1,
                                    !.info = Append(@, <<"git", uri,
                                                         "head-of-" \o uri>>)],
                retcode |-> 0, head |-> StrV("head-of-" \o uri),
                raised |-> FALSE, rname |-> rname, url |-> url]

\* a merge_patch_file that puts its row at the head of the list
merge_patch_file_Prepend(t, path) ==
    [t EXCEPT !.commits = @ + 1, !.info = <<<<"patch", path>>>> \o @]
\* ktree.merge_patch_file(path), when git am succeeds
merge_patch_file(t, path) ==
    [t EXCEPT !.commits = @ + 1, !.info = Append(@, <<"patch", path>>)]

\* ktree.merge_patchwork_patch(uri), when git am succeeds
merge_patchwork_patch(t, uri) ==
    [t EXCEPT !.commits = @ + 1,
              !.info = Append(@, <<"patchwork", uri, "name-of-" \o uri>>)]

\* ','.join(iitem)
RECURSIVE JoinRow(_)
JoinRow(iitem) ==
    IF Len(iitem) = 1 THEN iitem[1]
    ELSE iitem[1] \o "," \o JoinRow(Tail(iitem))
\* ktree.dumpinfo(): the path of the file and the lines written to it
dumpinfo(t) ==
    [fpath |-> t.wdir \o "/buildinfo.csv",
     lines |-> [i \in DOMAIN t.info |-> JoinRow(t.info[i])]]

\* a handler that re-raises without saving mergelog
MergeRaise_NoLog(m, rc) ==
    LET j == junit("merge", m.cfg, rc, TRUE)
    IN  /\ cfg' = j.cfg
        /\ parser' = m.parser
        /\ disk' = m.disk
        /\ trace' = m.trace
        /\ retcode' = j.retcode
        /\ exitcode' = j.exitcode
        /\ pc' = j.pc
\* except Exception as e: save_state(cfg, {'mergelog': ktree.mergelog}); raise e
MergeRaise(m, rc) ==
    LET m1 == SaveState(m, <<<<"mergelog", StrV(ktree.mergelog)>>>>)
        j == junit("merge", m1.cfg, rc, TRUE)
    IN  /\ cfg' = j.cfg
        /\ parser' = m1.parser
        /\ disk' = m1.disk
        /\ trace' = m1.trace
        /\ retcode' = j.retcode
        /\ exitcode' = j.exitcode
        /\ pc' = j.pc

\* lines 82-89: the tree, the base checkout, the first save_state
MergeCheckout ==
    /\ pc = "merge_checkout"
    /\ LET t == ktree_init(cfg)
       IN  \* ktree.__init__: os.mkdir(wdir), os.unlink(mergelog)
           /\ files' = (files \ {t.mergelog}) \cup {t.wdir}
           /\ loc' = NoLocals
           /\ IF ~world.baseOk
              THEN \* git fetch or checkout fails: the exception leaves cmd_merge
                   LET j == junit("merge", cfg, retcode, TRUE)
                   IN  /\ ktree' = t
                       /\ trace' = Append(trace, Event("checkout", "", "raise"))
                       /\ cfg' = j.cfg
                       /\ retcode' = j.retcode
                       /\ exitcode' = j.exitcode
                       /\ pc' = j.pc
                       /\ UNCHANGED <<parser, disk>>
              ELSE LET t1 == checkout(t)
                       m == SaveState(Log(Cur, Event("checkout", "", Commit(0))),
                                      << <<"baserepo", Get(cfg.flat, "baserepo")>>,
                                         <<"basehead", StrV(Commit(0))>>,
                                         <<"commitdate", IntV(1514764800)>> >>)
                   IN  /\ ktree' = t1
                       /\ cfg' = m.cfg
                       /\ parser' = m.parser
                       /\ disk' = m.disk
                       /\ trace' = m.trace
                       /\ pc' = "merge_refs"
                       /\ UNCHANGED <<retcode, exitcode>>
    /\ UNCHANGED <<args, world>>

\* lines 93-101: one iteration of the loop over cfg['merge_ref']
MergeRefIter ==
    /\ pc = "merge_refs"
    /\ loc.idx < Len(cfg.merge_ref.v)
    /\ LET mb == cfg.merge_ref.v[loc.idx + 1]
       IN  IF ~loc.head.bound
           THEN \* line 95 reads head before line 96 has assigned it:
                \* UnboundLocalError, caught at line 118
                /\ MergeRaise(Cur, retcode)
                /\ UNCHANGED <<loc, ktree>>
           ELSE LET m == SaveState(Cur,
                            << <<"meregerepo_" \o Fmt02d(loc.idx), StrV(mb)>>,
                               <<"mergehead_" \o Fmt02d(loc.idx), loc.head.v>> >>)
                    r == merge_git_ref(ktree, mb,
                                       IF world.gitFail = loc.idx + 1
                                       THEN "conflict" ELSE "ok")
                    m1 == Log(m, Event("merge_git_ref", mb, ToString(r.retcode)))
                IN  /\ ktree' = r.tree
                    /\ loc' = [loc EXCEPT !.head = Bound(r.head),
                                          !.utypes = Append(@, "[git]"),
                                          !.idx = @ + 1]
                    /\ parser' = m1.parser
                    /\ disk' = m1.disk
                    /\ trace' = m1.trace
                    /\ IF r.retcode # 0
                       THEN \* line 101: return
                            LET j == junit("merge", m1.cfg, r.retcode, FALSE)
                            IN  /\ cfg' = j.cfg
                                /\ retcode' = j.retcode
                                /\ exitcode' = j.exitcode
                                /\ pc' = j.pc
                       ELSE /\ cfg' = m1.cfg
                            /\ retcode' = r.retcode
                            /\ pc' = "merge_refs"
                            /\ UNCHANGED exitcode
    /\ UNCHANGED <<args, world, files>>

\* the patchwork loop placed before the local patch loop
MergeRefsDone_PatchworkFirst ==
    /\ pc = "merge_refs"
    /\ loc.idx = Len(cfg.merge_ref.v)
    /\ loc' = IF cfg.pw.has
              THEN [loc EXCEPT !.utypes = Append(@, "[patchwork]"), !.idx = 0]
              ELSE loc
    /\ pc' = "merge_pw"
    /\ UNCHANGED <<args, disk, parser, cfg, retcode, ktree, world, files, trace,
                   exitcode>>

\* lines 103-105: the loop over merge_ref is over
MergeRefsDone ==
    /\ pc = "merge_refs"
    /\ loc.idx = Len(cfg.merge_ref.v)
    /\ loc' = IF cfg.patchlist.has
              THEN [loc EXCEPT !.utypes = Append(@, "[local patch]"), !.idx = 0]
              ELSE loc
    /\ pc' = "merge_local"
    /\ UNCHANGED <<args, disk, parser, cfg, retcode, ktree, world, files, trace,
                   exitcode>>

\* lines 106-109: one local patch
LocalPatchIter ==
    /\ pc = "merge_local"
    /\ cfg.patchlist.has
    /\ loc.idx < Len(cfg.patchlist.v)
    /\ LET patch == cfg.patchlist.v[loc.idx + 1]
           m == SaveState(Cur, <<<<"localpatch_" \o Fmt02d(loc.idx), StrV(patch)>>>>)
       IN  IF world.localFail = loc.idx + 1
           THEN \* git am fails: merge_patch_file aborts it and raises
                /\ MergeRaise(Log(m, Event("merge_patch_file", patch, "raise")),
                              retcode)
                /\ UNCHANGED <<loc, ktree>>
           ELSE LET m1 == Log(m, Event("merge_patch_file", patch, "ok"))
                IN  /\ ktree' = merge_patch_file(ktree, patch)
                    /\ loc' = [loc EXCEPT !.idx = @ + 1]
                    /\ cfg' = m1.cfg
                    /\ parser' = m1.parser
                    /\ disk' = m1.disk
                    /\ trace' = m1.trace
                    /\ pc' = "merge_local"
                    /\ UNCHANGED <<retcode, exitcode>>
    /\ UNCHANGED <<args, world, files>>

\* lines 111-113: the loop over patchlist is over, or there is no patchlist
LocalPatchesDone ==
    /\ pc = "merge_local"
    /\ ~cfg.patchlist.has \/ loc.idx = Len(cfg.patchlist.v)
    /\ loc' = IF cfg.pw.has
              THEN [loc EXCEPT !.utypes = Append(@, "[patchwork]"), !.idx = 0]
              ELSE loc
    /\ pc' = "merge_pw"
    /\ UNCHANGED <<args, disk, parser, cfg, retcode, ktree, world, files, trace,
                   exitcode>>

\* lines 114-117: one patchwork patch
PatchworkIter ==
    /\ pc = "merge_pw"
    /\ cfg.pw.has
    /\ loc.idx < Len(cfg.pw.v)
    /\ LET patch == cfg.pw.v[loc.idx + 1]
           m == SaveState(Cur, <<<<"patchwork_" \o Fmt02d(loc.idx), StrV(patch)>>>>)
       IN  IF world.pwFail = loc.idx + 1
           THEN \* git am fails: merge_patchwork_patch writes the merge log
                \* and raises
                /\ MergeRaise(Log(m, Event("merge_patchwork_patch", patch, "raise")),
                              retcode)
                /\ files' = files \cup {ktree.mergelog}
                /\ UNCHANGED <<loc, ktree>>
           ELSE LET m1 == Log(m, Event("merge_patchwork_patch", patch, "ok"))
                IN  /\ ktree' = merge_patchwork_patch(ktree, patch)
                    /\ loc' = [loc EXCEPT !.idx = @ + 1]
                    /\ cfg' = m1.cfg
                    /\ parser' = m1.parser
                    /\ disk' = m1.disk
                    /\ trace' = m1.trace
                    /\ pc' = "merge_pw"
                    /\ UNCHANGED <<retcode, exitcode, files>>
    /\ UNCHANGED <<args, world>>

\* a join with a comma for the space
RECURSIVE Join_Comma(_)
Join_Comma(l) == IF Len(l) = 1 THEN l[1] ELSE l[1] \o "," \o Join_Comma(Tail(l))
\* " ".join(utypes)
RECURSIVE Join(_)
Join(l) == IF Len(l) = 1 THEN l[1] ELSE l[1] \o " " \o Join(Tail(l))

\* lines 122-133: uid, the provenance file, the last save_state
MergeBookkeeping ==
    /\ pc = "merge_pw"
    /\ ~cfg.pw.has \/ loc.idx = Len(cfg.pw.v)
    /\ LET uid == IF Len(loc.utypes) # 0 THEN Join(loc.utypes) ELSE "[baseline]"
           buildinfo == ktree.wdir \o "/buildinfo.csv"
           m == SaveState(Log(Cur, Event("dumpinfo", buildinfo, "")),
                          << <<"workdir", StrV(ktree.wdir)>>,
                             <<"buildinfo", StrV(buildinfo)>>,
                             <<"buildhead", StrV(HeadOf(ktree))>>,
                             <<"uid", StrV(uid)>> >>)
           j == junit("merge", m.cfg, retcode, FALSE)
       IN  /\ files' = files \cup {buildinfo}
           /\ cfg' = j.cfg
           /\ parser' = m.parser
           /\ disk' = m.disk
           /\ trace' = m.trace
           /\ retcode' = j.retcode
           /\ exitcode' = j.exitcode
           /\ pc' = j.pc
    /\ UNCHANGED <<args, loc, ktree, world>>

(***************************************************************************)
(* Paths.  dirname and basename are decided over the directories and file  *)
(* names the model can produce.                                            *)
(***************************************************************************)
Machine == "x86_64"
Tstamp == "20180101000000"
WorkDirs == {"/w", "/old", "/tmp/tmpdir", "/cli", "/state", "/config"}
ObjDir(wdir, arch) == wdir \o "/build_" \o arch
DirNames == WorkDirs \cup {ObjDir(w, a) : w \in WorkDirs, a \in Arches}
BaseNames == {"buildinfo.csv", "linux.tar.gz", "merge.log", "build.log", ".config"}
HasDir(path) == \E d \in DirNames, b \in BaseNames : path = d \o "/" \o b
\* os.path.dirname, os.path.basename
Dirname(path) ==
    IF HasDir(path)
    THEN CHOOSE d \in DirNames : \E b \in BaseNames : path = d \o "/" \o b
    ELSE ""
Basename(path) ==
    IF HasDir(path)
    THEN CHOOSE b \in BaseNames : \E d \in DirNames : path = d \o "/" \o b
    ELSE path
\* os.path.join(os.path.dirname(path), "%s-%s" % (tstamp, os.path.basename(path)))
addtstamp(path, tstamp) ==
    IF Dirname(path) = "" THEN tstamp \o "-" \o Basename(path)
    ELSE Dirname(path) \o "/" \o tstamp \o "-" \o Basename(path)

\* the end of a cmd_* step that has changed m, at position next
Step(m, next) ==
    /\ cfg' = m.cfg
    /\ parser' = m.parser
    /\ disk' = m.disk
    /\ trace' = m.trace
    /\ pc' = next
    /\ UNCHANGED <<retcode, exitcode>>
\* an exception that does not leave the loop it is raised in
Leave_StayInLoop(stage, m, rc, raised) ==
    LET j == junit(stage, m.cfg, rc, raised)
    IN  /\ cfg' = j.cfg
        /\ parser' = m.parser
        /\ disk' = m.disk
        /\ trace' = m.trace
        /\ retcode' = j.retcode
        /\ exitcode' = Running
        /\ pc' = pc
\* the end of a function wrapped by @junit, which returns or raises
Leave(stage, m, rc, raised) ==
    LET j == junit(stage, m.cfg, rc, raised)
    IN  /\ cfg' = j.cfg
        /\ parser' = m.parser
        /\ disk' = m.disk
        /\ trace' = m.trace
        /\ retcode' = j.retcode
        /\ exitcode' = j.exitcode
        /\ pc' = j.pc

(***************************************************************************)
(* cmd_build                                                               *)
(***************************************************************************)
\* lines 137-142: the timestamp, the default architecture
BuildStart ==
    /\ pc = "build_start"
    /\ LET arches == IF cfg.arches.has THEN cfg.arches
                     ELSE [has |-> TRUE,
                           v |-> Put(EmptyDict, Machine,
                                     [config |-> Get(cfg.flat, "baseconfig"),
                                      makeopts |-> Get(cfg.flat, "makeopts")])]
       IN  /\ cfg' = [cfg EXCEPT !.arches = arches]
           /\ loc' = [NoLocals EXCEPT !.todo = DOMAIN arches.v]
    /\ pc' = "build_arch"
    /\ UNCHANGED <<args, disk, parser, retcode, ktree, world, files, trace,
                   exitcode>>

BuildOutcomes == {"ok", "prepare fails", "no tarball", "no release"}

\* lines 144-180: one architecture
BuildArch ==
    /\ pc = "build_arch"
    /\ \E arch \in loc.todo, outcome \in BuildOutcomes :
         LET opts == cfg.arches.v[arch]
             workdir == Get(cfg.flat, "workdir")
             buildhead == Get(cfg.flat, "buildhead")
             buildinfo == Get(cfg.flat, "buildinfo")
             objdir == ObjDir(workdir.s, arch)
             buildlog == objdir \o "/build.log"
             tgz == objdir \o "/linux.tar.gz"
             ttgz == IF buildhead # None
                     THEN buildhead.s \o "_" \o arch \o ".tar.gz"
                     ELSE arch \o "_" \o addtstamp(tgz, Tstamp)
             tbuildinfo == IF buildinfo = None THEN None
                           ELSE IF buildhead # None
                                THEN StrV(buildhead.s \o ".csv")
                                ELSE StrV(addtstamp(buildinfo.s, Tstamp))
             \* tbuildinfo.replace('.csv', "_%s.config" % arch)
             tconfig == IF buildhead # None
                        THEN buildhead.s \o "_" \o arch \o ".config"
                        ELSE Dirname(buildinfo.s) \o "/" \o Tstamp
                             \o "-buildinfo_" \o arch \o ".config"
             m0 == Log(Cur, Event("mktgz", arch, outcome))
         IN  /\ loc' = [loc EXCEPT !.todo = @ \ {arch}]
             /\ IF workdir = None \/ Get(opts, "config") = None
                THEN \* kbuilder.__init__ raises on a None path or config
                     /\ Leave("build", Cur, retcode, TRUE)
                     /\ UNCHANGED files
                ELSE IF outcome \in {"prepare fails", "no tarball"}
                THEN \* lines 150-152
                     /\ files' = (files \ {buildlog})
                                 \cup (IF outcome = "no tarball"
                                       THEN {buildlog} ELSE {})
                     /\ Leave("build",
                              SaveState(m0, <<<<"buildlog_" \o arch, StrV(buildlog)>>>>),
                              retcode, TRUE)
                ELSE IF buildhead = None
                THEN \* line 158: os.rename to "{arch}_{dirname}/...", a
                     \* directory that does not exist
                     /\ files' = (files \ {buildlog}) \cup {tgz}
                     /\ Leave("build", m0, retcode, TRUE)
                ELSE IF buildinfo # None /\ buildinfo.s \notin files
                THEN \* line 167: os.rename of a file that does not exist
                     /\ files' = (files \ {buildlog}) \cup {ttgz}
                     /\ Leave("build", m0, retcode, TRUE)
                ELSE IF buildinfo = None
                THEN \* line 170: None has no replace()
                     /\ files' = (files \ {buildlog}) \cup {ttgz}
                     /\ Leave("build", m0, retcode, TRUE)
                ELSE IF outcome = "no release"
                THEN \* line 173: getrelease raises
                     /\ files' = ((files \ {buildlog, buildinfo.s})
                                 \cup {ttgz, tbuildinfo.s, tconfig})
                     /\ Leave("build", m0, retcode, TRUE)
                ELSE /\ files' = ((files \ {buildlog, buildinfo.s})
                                 \cup {ttgz, tbuildinfo.s, tconfig})
                     /\ Step(SaveState(
                                SaveState(m0, <<<<"buildinfo", tbuildinfo>>>>),
                                << <<"tarpkg_" \o arch, StrV(ttgz)>>,
                                   <<"buildconf_" \o arch, StrV(tconfig)>>,
                                   <<"krelease", StrV("4.17.0-rc6+")>> >>),
                             "build_arch")
    /\ UNCHANGED <<args, ktree, world>>

\* the loop over cfg['arches'] is over
BuildDone ==
    /\ pc = "build_arch"
    /\ loc.todo = {}
    /\ Leave("build", Cur, retcode, FALSE)
    /\ UNCHANGED <<args, loc, ktree, world, files>>

(***************************************************************************)
(* cmd_publish.  The publisher is [type, destination, baseurl].            *)
(***************************************************************************)
\* publisher.geturl(name)
geturl(publisher, name) == publisher.v[3] \o "/" \o name
\* publisher.publish(path): the URL of the uploaded file
publish(publisher, path) == geturl(publisher, Basename(path))

\* cfg["archdata"][platform.machine()][field] = value
SetArchdata(c, field, value) ==
    LET old == IF Machine \in DOMAIN c.archdata.v
               THEN c.archdata.v[Machine] ELSE EmptyDict
    IN  [c EXCEPT !.archdata =
            [has |-> TRUE, v |-> Put(c.archdata.v, Machine, Put(old, field, value))]]

\* lines 184-198: the publisher, archdata from --tarpkg and buildconf
PublishStart ==
    /\ pc = "publish_start"
    /\ IF ~cfg.publisher.has
       THEN \* getpublisher(*None)
            /\ Leave("publish", Cur, retcode, TRUE)
            /\ loc' = NoLocals
       ELSE LET c1 == [cfg EXCEPT !.archdata.has = TRUE]
                c2 == IF Truthy(Get(cfg.flat, "tarpkg"))
                      THEN SetArchdata(c1, "tarkpg", Get(cfg.flat, "tarpkg"))
                      ELSE c1
                c3 == IF Truthy(Get(cfg.flat, "buildconf"))
                      THEN SetArchdata(c2, "buildconf", Get(cfg.flat, "buildconf"))
                      ELSE c2
            IN  /\ Step([Cur EXCEPT !.cfg = c3], "publish_arch")
                /\ loc' = [NoLocals EXCEPT !.todo = DOMAIN c3.archdata.v]
    /\ UNCHANGED <<args, ktree, world, files>>

\* lines 200-208: one architecture
PublishArch ==
    /\ pc = "publish_arch"
    /\ \E arch \in loc.todo, ok \in BOOLEAN :
         LET archdata == cfg.archdata.v[arch]
             tarpkg == Get(archdata, "tarpkg")
             buildconf == Get(archdata, "buildconf")
             m0 == Log(Cur, Event("publish", tarpkg.s, IF ok THEN "ok" ELSE "raise"))
             cfgurl == IF buildconf # None
                       THEN Bound(StrV(publish(cfg.publisher, buildconf.s)))
                       ELSE loc.cfgurl
             m1 == IF buildconf # None
                   THEN Log(m0, Event("publish", buildconf.s, "ok"))
                   ELSE m0
         IN  IF tarpkg = None \/ ~ok
             THEN \* publish of None, or the upload fails
                  /\ Leave("publish", m0, retcode, TRUE)
                  /\ loc' = [loc EXCEPT !.todo = @ \ {arch}]
             ELSE IF ~cfgurl.bound
             THEN \* line 208 reads cfgurl, which no iteration has assigned
                  /\ Leave("publish", m0, retcode, TRUE)
                  /\ loc' = [loc EXCEPT !.todo = @ \ {arch}]
             ELSE /\ Step(SaveState(m1,
                              << <<"buildurl_" \o arch,
                                   StrV(publish(cfg.publisher, tarpkg.s))>>,
                                 <<"cfgurl_" \o arch, cfgurl.v>> >>),
                          "publish_arch")
                  /\ loc' = [loc EXCEPT !.todo = @ \ {arch}, !.cfgurl = cfgurl]
    /\ UNCHANGED <<args, ktree, world, files>>

\* lines 210-212: the provenance file
PublishInfo ==
    /\ pc = "publish_arch"
    /\ loc.todo = {}
    /\ LET buildinfo == Get(cfg.flat, "buildinfo")
       IN  IF buildinfo # None
           THEN Leave("publish",
                      SaveState(Log(Cur, Event("publish", buildinfo.s, "ok")),
                                <<<<"infourl",
                                    StrV(publish(cfg.publisher, buildinfo.s))>>>>),
                      retcode, FALSE)
           ELSE Leave("publish", Cur, retcode, FALSE)
    /\ UNCHANGED <<args, loc, ktree, world, files>>

(***************************************************************************)
(* cmd_run.  The runner object is loc.jobs, the set of submitted job ids.  *)
(***************************************************************************)
JobId(n) == "J:" \o ToString(n)
Host(arch) == "host-" \o arch
\* runner.hostarch(host)
hostarch(host) == CHOOSE a \in Arches : host = Host(a)

\* lines 218-231: archdata from --buildurl and cfgurl, the runner
RunStart ==
    /\ pc = "run_start"
    /\ LET c1 == [cfg EXCEPT !.archdata.has = TRUE]
           c2 == IF Truthy(Get(cfg.flat, "buildurl"))
                 THEN SetArchdata(c1, "buildurl", Get(cfg.flat, "buildurl"))
                 ELSE c1
           c3 == IF Truthy(Get(cfg.flat, "cfgurl"))
                 THEN SetArchdata(c2, "cfgurl", Get(cfg.flat, "cfgurl"))
                 ELSE c2
       IN  IF ~cfg.runner.has
           THEN \* getrunner(*None)
                /\ Leave("run", [Cur EXCEPT !.cfg = c3], retcode, TRUE)
                /\ loc' = NoLocals
           ELSE /\ Step([Cur EXCEPT !.cfg = c3], "run_submit")
                /\ loc' = [NoLocals EXCEPT !.todo = DOMAIN c3.archdata.v]
    /\ UNCHANGED <<args, ktree, world, files>>

\* lines 234-240: one job per architecture
RunSubmit ==
    /\ pc = "run_submit"
    /\ \E arch \in loc.todo :
         LET job == JobId(Cardinality(loc.jobs) + 1)
         IN  /\ loc' = [loc EXCEPT !.todo = @ \ {arch}, !.jobs = @ \cup {job}]
             /\ trace' = Append(trace, Event("prepare_and_submit", arch, job))
    /\ UNCHANGED <<args, disk, parser, cfg, retcode, pc, ktree, world, files,
                   exitcode>>

\* a runner that has lost its jobs
Orders_None(S) == {<<>>}
\* the orders in which a set can be iterated
Orders(S) == {o \in [1..Cardinality(S) -> S] : \A i, j \in DOMAIN o : o[i] = o[j] => i = j}

\* lines 242-252: wait for the jobs, the aggregate result, the job ids
RunResults ==
    /\ pc = "run_submit"
    /\ loc.todo = {}
    /\ \E res \in {0, 1}, jobs \in Orders(loc.jobs) :
         LET m == SaveState(Log(Cur, Event("getresults", "", ToString(res))),
                            [i \in DOMAIN jobs |->
                                <<"jobid_" \o FmtS(i - 1), StrV(jobs[i])>>])
         IN  /\ retcode' = res
             /\ cfg' = [m.cfg EXCEPT !.jobs = [has |-> TRUE, v |-> loc.jobs]]
             /\ parser' = m.parser
             /\ disk' = m.disk
             /\ trace' = m.trace
             /\ files' = files \cup
                   (IF Truthy(Get(cfg.flat, "wait")) /\ Get(cfg.flat, "junit") # None
                    THEN {Get(cfg.flat, "junit").s \o "/" \o jobs[i] \o ".xml" :
                            i \in DOMAIN jobs}
                    ELSE {})
    /\ pc' = "run_verdict"
    /\ UNCHANGED <<args, loc, ktree, world, exitcode>>

\* the condition without its comparison of basehead with buildhead
BaselineWanted_IgnoreBuildhead(c) ==
    Truthy(Get(c.flat, "basehead")) /\ c.publisher.has
\* lines 260-261: is the baseline to be tested again?
BaselineWanted(c) ==
    /\ Truthy(Get(c.flat, "basehead"))
    /\ c.publisher.has
    /\ Get(c.flat, "basehead") # Get(c.flat, "buildhead")

\* a verdict that ignores the baseline
Coerced_KeepResult(res, baseres) == res
\* lines 272-274: if the baseline fails as well, assume a pass
Coerced(res, baseres) == IF baseres # 0 THEN 0 ELSE res

\* baserunner.run(baseurl, krelease, wait, host, uid, reschedule)
RunEvent(url, host, uid, reschedule, res) ==
    [op |-> "run", a |-> url, b |-> host, uid |-> uid,
     reschedule |-> reschedule, res |-> res]

\* a cmd_run that persists retcode as soon as the runner has answered
RunVerdict_RetcodeFirst ==
    /\ pc = "run_verdict"
    /\ \E mfarch \in Arches, baseres \in {0, 1} :
         LET mfhost == Host(mfarch)
             m0 == SaveState(Cur, <<<<"retcode", IntV(retcode)>>>>)
             m1 == SaveState(m0, << <<"mfhost", StrV(mfhost)>>,
                                    <<"mfarch", StrV(hostarch(mfhost))>> >>)
             baseurl == geturl(cfg.publisher,
                               Get(cfg.flat, "basehead").s \o "_"
                               \o hostarch(mfhost) \o ".tar.gz")
             m2 == SaveState(Log(m1, RunEvent(baseurl, mfhost, "baseline check",
                                              FALSE, baseres)),
                             <<<<"baseretcode", IntV(baseres)>>>>)
         IN  IF retcode = 0
             THEN Leave("run", m0, retcode, FALSE)
             ELSE IF BaselineWanted(cfg)
             THEN Leave("run", m2, Coerced(retcode, baseres), FALSE)
             ELSE Leave("run", m1, retcode, FALSE)
    /\ UNCHANGED <<args, loc, ktree, world, files>>
\* lines 254-276: the most failing host, the baseline retest, retcode
RunVerdict ==
    /\ pc = "run_verdict"
    /\ \E mfarch \in Arches, baseres \in {0, 1} :
         LET mfhost == Host(mfarch)
             m1 == SaveState(Cur, << <<"mfhost", StrV(mfhost)>>,
                                     <<"mfarch", StrV(hostarch(mfhost))>> >>)
             baseurl == geturl(cfg.publisher,
                               Get(cfg.flat, "basehead").s \o "_"
                               \o hostarch(mfhost) \o ".tar.gz")
             m2 == SaveState(Log(m1, RunEvent(baseurl, mfhost, "baseline check",
                                              FALSE, baseres)),
                             <<<<"baseretcode", IntV(baseres)>>>>)
         IN  IF retcode = 0
             THEN Leave("run", SaveState(Cur, <<<<"retcode", IntV(retcode)>>>>),
                        retcode, FALSE)
             ELSE IF BaselineWanted(cfg)
             THEN LET rc == Coerced(retcode, baseres)
                  IN  Leave("run", SaveState(m2, <<<<"retcode", IntV(rc)>>>>),
                            rc, FALSE)
             ELSE Leave("run", SaveState(m1, <<<<"retcode", IntV(retcode)>>>>),
                        retcode, FALSE)
    /\ UNCHANGED <<args, loc, ktree, world, files>>

(***************************************************************************)
(* cmd_report and cmd_cleanup                                              *)
(***************************************************************************)
\* the position after a function cmd_all calls without the junit wrapper
After(stage) == IF args.cmd = "all" THEN NextOfAll(stage, cfg) ELSE "main_end"

(***************************************************************************)
(* The reporter.  A state snapshot is a dictionary of state keys; in       *)
(* multi-report mode the reporter is given the snapshots of several state  *)
(* files, one per architecture.                                            *)
(***************************************************************************)
\* the outcomes of a run, from the best to the worst
ReportClasses == <<"PASSED", "Hardware test: FAILED", "Build failed",
                   "Patch application failed">>
\* a classification that looks at retcode before the logs
classify_RetcodeFirst(snap) ==
    IF Str(Get(snap, "retcode")).s # "0" THEN "Hardware test: FAILED"
    ELSE IF Get(snap, "mergelog") # None THEN "Patch application failed"
    ELSE IF \E k \in DOMAIN snap : /\ k = "buildlog" \/ StartsWith(k, "buildlog_")
                                   /\ snap[k] # None
    THEN "Build failed"
    ELSE "PASSED"
classify(snap) ==
    IF Get(snap, "mergelog") # None THEN "Patch application failed"
    ELSE IF \E k \in DOMAIN snap : /\ k = "buildlog" \/ StartsWith(k, "buildlog_")
                                   /\ snap[k] # None
    THEN "Build failed"
    ELSE IF Str(Get(snap, "retcode")).s # "0" THEN "Hardware test: FAILED"
    ELSE "PASSED"
Severity(class) == CHOOSE i \in DOMAIN ReportClasses : ReportClasses[i] = class
\* multi-report mode: the worst outcome of the state files
Worst(statefiles) ==
    LET i == CHOOSE j \in DOMAIN statefiles :
                 \A k \in DOMAIN statefiles :
                     Severity(classify(statefiles[k])) <= Severity(classify(statefiles[j]))
    IN  classify(statefiles[i])
\* reporter.report(): the classification and the overall result it emits
report(snap, statefiles) ==
    LET class == IF statefiles = <<>> THEN classify(snap) ELSE Worst(statefiles)
    IN  Event("report", class, IF class = "PASSED" THEN "PASSED" ELSE "FAILED")

\* a cmd_report that does not hand cfg to the reporter
cmd_report_WithoutCfg ==
    /\ pc = "report"
    /\ trace' = IF cfg.reporter.has
                THEN Append(trace, report(EmptyDict, world.statefiles))
                ELSE trace
    /\ pc' = After("report")
    /\ UNCHANGED <<args, disk, parser, cfg, retcode, loc, ktree, world, files,
                   exitcode>>
cmd_report ==
    /\ pc = "report"
    /\ trace' = IF cfg.reporter.has
                THEN Append(trace, report(cfg.flat, world.statefiles))
                ELSE trace
    /\ pc' = After("report")
    /\ UNCHANGED <<args, disk, parser, cfg, retcode, loc, ktree, world, files,
                   exitcode>>

\* the files below directory d
Below(d) == {d} \cup {f \in files : \E w \in DirNames, b \in BaseNames :
                         /\ f = w \o "/" \o b
                         /\ w = d \/ \E a \in Arches : w = ObjDir(d, a)}

cmd_cleanup ==
    /\ pc = "cleanup"
    /\ LET p1 == [parser EXCEPT !.hasState = FALSE, !.state = <<>>]
           unlinked == {Get(cfg.flat, k).s : k \in {"buildinfo", "tarpkg"}}
           workdir == Get(cfg.flat, "workdir")
       IN  /\ parser' = IF parser.hasState THEN p1 ELSE parser
           /\ disk' = IF parser.hasState THEN WriteFile(p1) ELSE disk
           /\ trace' = Append(trace, Event("cleanup", "", ""))
           /\ IF ~Truthy(Get(cfg.flat, "wipe"))
              THEN /\ files' = files \ unlinked
                   /\ pc' = After("cleanup")
                   /\ UNCHANGED exitcode
              ELSE IF workdir = None
              THEN \* os.path.expanduser(None) raises; nothing catches it
                   /\ files' = files \ unlinked
                   /\ pc' = "exit"
                   /\ exitcode' = Exited(1)
              ELSE IF workdir.s \notin files
              THEN \* shutil.rmtree of a directory that does not exist raises
                   /\ files' = files \ unlinked
                   /\ pc' = "exit"
                   /\ exitcode' = Exited(1)
              ELSE /\ files' = (files \ unlinked) \ Below(workdir.s)
                   /\ pc' = After("cleanup")
                   /\ UNCHANGED exitcode
    /\ UNCHANGED <<args, cfg, retcode, loc, ktree, world>>

(***************************************************************************)
(* skt.py merge: every command line and outcome of the bounds.             *)
(***************************************************************************)
RefUrl(i) == "git://r" \o ToString(i)
PatchPath(i) == "/p" \o ToString(i)
PwUrl(i) == "http://pw/patch/" \o ToString(i)

\* an option taking a list: not given, or one to MaxIdx items
ListsOf(dest) ==
    {NoList} \cup
    {[has |-> TRUE,
      v |-> [i \in 1..n |-> CASE dest = "merge_ref" -> RefUrl(i)
                              [] dest = "patchlist" -> PatchPath(i)
                              [] OTHER              -> PwUrl(i)]] : n \in 1..MaxIdx}

\* an rc file left by an earlier run with --state
PriorStateFile ==
    [EmptyFile EXCEPT !.hasState = TRUE,
                      !.state = << <<"workdir", StrV("/old")>>,
                                   <<"mergelog", StrV("/old/merge.log")>> >>]

InitMerge ==
    /\ \E st \in BOOLEAN, ju \in BOOLEAN, wd \in BOOLEAN,
          mr \in ListsOf("merge_ref"), pl \in ListsOf("patchlist"),
          pw \in ListsOf("pw") :
         /\ args = ParseArgs("merge",
                 [x \in {"baserepo", "state"} \cup (IF ju THEN {"junit"} ELSE {})
                        \cup (IF wd THEN {"workdir"} ELSE {}) |->
                     CASE x = "baserepo" -> StrV("git://base")
                       [] x = "state"    -> BoolV(st)
                       [] x = "junit"    -> StrV("/junit")
                       [] OTHER          -> StrV("/w")],
                 [NoLists EXCEPT !.merge_ref = mr, !.patchlist = pl, !.pw = pw])
         /\ \E bo \in BOOLEAN, gf \in 0..Len(mr.v), lf \in 0..Len(pl.v),
               pf \in 0..Len(pw.v) :
              world = [baseOk |-> bo, gitFail |-> gf, localFail |-> lf,
                       pwFail |-> pf, statefiles |-> <<>>]
    /\ disk \in {EmptyFile, PriorStateFile}
    /\ parser = EmptyFile
    /\ cfg = ArgsCfg(args)
    /\ retcode = 0
    /\ pc = "start"
    /\ loc = NoLocals
    /\ ktree = NoTree
    /\ files = {}
    /\ trace = <<>>
    /\ exitcode = Running

NextMerge ==
    \/ LoadConfig
    \/ Dispatch
    \/ MergeCheckout
    \/ MergeRefIter
    \/ MergeRefsDone
    \/ LocalPatchIter
    \/ LocalPatchesDone
    \/ PatchworkIter
    \/ MergeBookkeeping
    \/ MainExit
SpecMerge == InitMerge /\ [][NextMerge]_vars

(***************************************************************************)
(* skt.py run: every command line, rc file and outcome of the bounds.      *)
(***************************************************************************)
BuildUrl(arch) == "http://url/h1_" \o arch \o ".tar.gz"
ThePublisher == [has |-> TRUE, v |-> <<"cp", "/srv/www", "http://url">>]
TheRunner == [has |-> TRUE, v |-> <<"beaker", "jobtemplate">>]

\* the [state] section an earlier build and publish have left
RunStateFiles ==
    {[EmptyFile EXCEPT !.hasState = TRUE,
                       !.state = [i \in 1..Len(a) |->
                                     <<"buildurl_" \o a[i], StrV(BuildUrl(a[i]))>>]
                                 \o b \o h] :
        a \in {<<>>, <<"x86_64">>, <<"s390x", "x86_64">>},
        b \in {<<>>, << <<"basehead", StrV(Commit(0))>> >>},
        h \in {<<>>, << <<"buildhead", StrV(Commit(0))>> >>,
               << <<"buildhead", StrV(Commit(1))>> >>}}

InitRun ==
    /\ \E st \in BOOLEAN, ju \in BOOLEAN, wa \in BOOLEAN, bu \in BOOLEAN :
         args = ParseArgs("run",
                 [x \in {"state", "wait"} \cup (IF ju THEN {"junit"} ELSE {})
                        \cup (IF bu THEN {"buildurl"} ELSE {}) |->
                     CASE x = "state" -> BoolV(st)
                       [] x = "wait"  -> BoolV(wa)
                       [] x = "junit" -> StrV("/junit")
                       [] OTHER       -> StrV(BuildUrl(Machine))],
                 NoLists)
    /\ \E f \in RunStateFiles, pb \in {NoList, ThePublisher},
          rn \in {NoList, TheRunner} :
         disk = [f EXCEPT !.publisher = pb, !.runner = rn]
    /\ parser = EmptyFile
    /\ cfg = ArgsCfg(args)
    /\ retcode = 0
    /\ pc = "start"
    /\ loc = NoLocals
    /\ ktree = NoTree
    /\ world = [baseOk |-> TRUE, gitFail |-> 0, localFail |-> 0, pwFail |-> 0,
                statefiles |-> <<>>]
    /\ files = {}
    /\ trace = <<>>
    /\ exitcode = Running

NextRun ==
    \/ LoadConfig
    \/ Dispatch
    \/ RunStart
    \/ RunSubmit
    \/ RunResults
    \/ RunVerdict
    \/ MainExit
SpecRun == InitRun /\ [][NextRun]_vars

(***************************************************************************)
(* skt.py with every subcommand: the whole pipeline in one run (all), or   *)
(* one stage resuming from the [state] section an earlier run has left.    *)
(***************************************************************************)
TheReporter == [has |-> TRUE, v |-> <<"stdio", "reportopts">>]
RcFile == [EmptyFile EXCEPT !.publisher = ThePublisher, !.runner = TheRunner,
                            !.reporter = TheReporter]
StateAfterMerge ==
    << <<"baserepo", StrV("git://base")>>, <<"basehead", StrV(Commit(0))>>,
       <<"commitdate", StrV("1514764800")>>, <<"workdir", StrV("/old")>>,
       <<"buildinfo", StrV("/old/buildinfo.csv")>>,
       <<"buildhead", StrV(Commit(1))>>, <<"uid", StrV("[local patch]")>> >>
StateAfterBuild ==
    SetOptions(StateAfterMerge,
               << <<"buildinfo", StrV("h1.csv")>>,
                  <<"tarpkg_x86_64", StrV("h1_x86_64.tar.gz")>>,
                  <<"buildconf_x86_64", StrV("h1_x86_64.config")>>,
                  <<"krelease", StrV("4.17.0-rc6+")>> >>)
StateAfterPublish ==
    SetOptions(StateAfterBuild,
               << <<"buildurl_x86_64", StrV(BuildUrl("x86_64"))>>,
                  <<"cfgurl_x86_64", StrV("http://url/h1_x86_64.config")>>,
                  <<"infourl", StrV("http://url/h1.csv")>> >>)
\* the directory and the files the values of a [state] section name
FilesOf(sec) ==
    {sec[i][2].s : i \in {j \in DOMAIN sec :
                            sec[j][1] \in {"workdir", "buildinfo",
                                           "tarpkg_x86_64",
                                           "buildconf_x86_64"}}}

Init ==
    /\ \E cmd \in Commands, st \in BOOLEAN, ju \in BOOLEAN, wa \in BOOLEAN,
          wi \in BOOLEAN, mr \in {NoList, [has |-> TRUE, v |-> <<RefUrl(1)>>]},
          pl \in {NoList, [has |-> TRUE, v |-> <<PatchPath(1)>>]},
          pw \in {NoList, [has |-> TRUE, v |-> <<PwUrl(1)>>]} :
         /\ args = ParseArgs(cmd,
                 [x \in {"state", "wait", "wipe", "baserepo", "baseconfig"}
                        \cup (IF ju THEN {"junit"} ELSE {}) |->
                     CASE x = "state" -> BoolV(st)
                       [] x = "wait"  -> BoolV(wa)
                       [] x = "wipe"  -> BoolV(wi)
                       [] x = "junit" -> StrV("/junit")
                       [] x = "baserepo" -> StrV("git://base")
                       [] OTHER       -> StrV("/configs/base.config")],
                 [NoLists EXCEPT !.merge_ref = mr, !.patchlist = pl, !.pw = pw])
         /\ \E bo \in BOOLEAN, lf \in 0..Len(pl.v), pf \in 0..Len(pw.v) :
              world = [baseOk |-> bo, gitFail |-> 0, localFail |-> lf,
                       pwFail |-> pf, statefiles |-> <<>>]
    /\ \E sec \in {<<>>, StateAfterMerge, StateAfterBuild, StateAfterPublish},
          rp \in {NoList, TheReporter} :
         /\ disk = [RcFile EXCEPT !.hasState = sec # <<>>, !.state = sec,
                                  !.reporter = rp]
         /\ files = FilesOf(sec)
    /\ parser = EmptyFile
    /\ cfg = ArgsCfg(args)
    /\ retcode = 0
    /\ pc = "start"
    /\ loc = NoLocals
    /\ ktree = NoTree
    /\ trace = <<>>
    /\ exitcode = Running

Next ==
    \/ LoadConfig
    \/ Dispatch
    \/ MergeCheckout
    \/ MergeRefIter
    \/ MergeRefsDone
    \/ LocalPatchIter
    \/ LocalPatchesDone
    \/ PatchworkIter
    \/ MergeBookkeeping
    \/ BuildStart
    \/ BuildArch
    \/ BuildDone
    \/ PublishStart
    \/ PublishArch
    \/ PublishInfo
    \/ RunStart
    \/ RunSubmit
    \/ RunResults
    \/ RunVerdict
    \/ cmd_report
    \/ cmd_cleanup
    \/ MainExit
Spec == Init /\ [][Next]_vars

(***************************************************************************)
(* skt.py build: every command line, rc file and outcome of the bounds.    *)
(***************************************************************************)
\* the [arches] section: one base config per architecture
ArchesSection ==
    << << <<"x86_64", "config">>, StrV("/configs/x86_64.config")>>,
       << <<"s390x", "config">>, StrV("/configs/s390x.config")>> >>
\* [state] sections an earlier merge may have left: complete, without
\* buildhead, without buildinfo
BuildStateFiles ==
    {[EmptyFile EXCEPT !.hasState = sec # <<>>, !.state = sec] :
        sec \in {<<>>, StateAfterMerge,
                 SelectSeq(StateAfterMerge, LAMBDA o : o[1] # "buildhead"),
                 SelectSeq(StateAfterMerge, LAMBDA o : o[1] # "buildinfo")}}

InitBuild ==
    /\ \E st \in BOOLEAN, ju \in BOOLEAN, wd \in BOOLEAN, bc \in BOOLEAN :
         args = ParseArgs("build",
                 [x \in {"state"} \cup (IF ju THEN {"junit"} ELSE {})
                        \cup (IF wd THEN {"workdir"} ELSE {})
                        \cup (IF bc THEN {"baseconfig"} ELSE {}) |->
                     CASE x = "state" -> BoolV(st)
                       [] x = "junit" -> StrV("/junit")
                       [] x = "workdir" -> StrV("/w")
                       [] OTHER       -> StrV("/configs/base.config")],
                 NoLists)
    /\ \E f \in BuildStateFiles, ar \in BOOLEAN :
         disk = [f EXCEPT !.hasArches = ar,
                          !.arches = IF ar THEN ArchesSection ELSE <<>>]
    /\ files \in {{}, {"/old/buildinfo.csv"}}
    /\ parser = EmptyFile
    /\ cfg = ArgsCfg(args)
    /\ retcode = 0
    /\ pc = "start"
    /\ loc = NoLocals
    /\ ktree = NoTree
    /\ world = [baseOk |-> TRUE, gitFail |-> 0, localFail |-> 0, pwFail |-> 0,
                statefiles |-> <<>>]
    /\ trace = <<>>
    /\ exitcode = Running

NextBuild ==
    \/ LoadConfig
    \/ Dispatch
    \/ BuildStart
    \/ BuildArch
    \/ BuildDone
    \/ MainExit
SpecBuild == InitBuild /\ [][NextBuild]_vars

(***************************************************************************)
(* skt.py publish: every command line and rc file of the bounds.           *)
(***************************************************************************)
\* what an earlier build may have left in [state], in file order
PublishStateOptions ==
    << <<"tarpkg_x86_64", StrV("h1_x86_64.tar.gz")>>,
       <<"buildconf_x86_64", StrV("h1_x86_64.config")>>,
       <<"tarpkg_s390x", StrV("h1_s390x.tar.gz")>>,
       <<"buildconf_s390x", StrV("h1_s390x.config")>>,
       <<"buildinfo", StrV("h1.csv")>> >>
PublishStateFiles ==
    {[EmptyFile EXCEPT !.hasState = TRUE,
                       !.state = SelectSeq(PublishStateOptions,
                                           LAMBDA o : o[1] \in keep)] :
        keep \in SUBSET {PublishStateOptions[i][1] : i \in DOMAIN PublishStateOptions}}

InitPublish ==
    /\ \E st \in BOOLEAN, ju \in BOOLEAN, tp \in BOOLEAN :
         args = ParseArgs("publish",
                 [x \in {"state"} \cup (IF ju THEN {"junit"} ELSE {})
                        \cup (IF tp THEN {"tarpkg"} ELSE {}) |->
                     CASE x = "state" -> BoolV(st)
                       [] x = "junit" -> StrV("/junit")
                       [] OTHER       -> StrV("cli_x86_64.tar.gz")],
                 NoLists)
    /\ \E f \in PublishStateFiles, pb \in {NoList, ThePublisher} :
         /\ disk = [f EXCEPT !.publisher = pb]
         /\ files = FilesOf(f.state)
    /\ parser = EmptyFile
    /\ cfg = ArgsCfg(args)
    /\ retcode = 0
    /\ pc = "start"
    /\ loc = NoLocals
    /\ ktree = NoTree
    /\ world = [baseOk |-> TRUE, gitFail |-> 0, localFail |-> 0, pwFail |-> 0,
                statefiles |-> <<>>]
    /\ trace = <<>>
    /\ exitcode = Running

NextPublish ==
    \/ LoadConfig
    \/ Dispatch
    \/ PublishStart
    \/ PublishArch
    \/ PublishInfo
    \/ MainExit
SpecPublish == InitPublish /\ [][NextPublish]_vars

(***************************************************************************)
(* ktree.merge_git_ref on its own: up to MaxIdx calls on a tree that has   *)
(* checked out its base, with every answer of git.                         *)
(***************************************************************************)
\* the repositories merged: some share their last path segment
MergeUris ==
    {RefUrl(i) : i \in 1..MaxIdx + 1}
    \cup {Uri("git://a", "linux", TRUE, FALSE), Uri("git://b", "linux", TRUE, TRUE),
          Uri("git://b", "linux_", FALSE, FALSE)}
\* the remotes a working directory used before already has
EarlierRemotes ==
    {{}, {<<"linux", StrV(Uri("git://a", "linux", TRUE, FALSE))>>},
     {<<"linux", StrV(Uri("git://b", "linux", TRUE, TRUE))>>,
      <<"linux_", StrV(Uri("git://a", "linux", TRUE, FALSE))>>}}

\* (retcode, head) = ktree.merge_git_ref(uri)
KtreeMergeGitRef ==
    /\ pc = "ktree"
    /\ loc.idx < MaxIdx
    /\ \E uri \in MergeUris, outcome \in MergeOutcomes :
         LET r == merge_git_ref(ktree, uri, outcome)
         IN  /\ ktree' = r.tree
             /\ trace' = Append(trace, [op |-> "merge_git_ref", a |-> uri,
                                        b |-> outcome, rname |-> r.rname,
                                        url |-> r.url])
             /\ IF r.raised
                THEN /\ pc' = "raised"
                     /\ UNCHANGED <<retcode, loc>>
                ELSE /\ pc' = "ktree"
                     /\ retcode' = r.retcode
                     /\ loc' = [loc EXCEPT !.head = Bound(r.head), !.idx = @ + 1]
    /\ UNCHANGED <<args, disk, parser, cfg, world, files, exitcode>>

InitKtree ==
    /\ \E wd \in BOOLEAN :
         args = ParseArgs("merge",
                 [x \in {"baserepo"} \cup (IF wd THEN {"workdir"} ELSE {}) |->
                     IF x = "baserepo" THEN StrV("git://base") ELSE StrV("/w")],
                 NoLists)
    /\ disk = EmptyFile
    /\ parser = EmptyFile
    /\ cfg = ArgsCfg(args)
    /\ retcode = 0
    /\ pc = "ktree"
    /\ loc = NoLocals
    /\ \E earlier \in EarlierRemotes :
         ktree = [ktree_init(ArgsCfg(args)) EXCEPT
                     !.info = <<<<"base", "git://base", Commit(0)>>>>,
                     !.remotes = @ \cup earlier]
    /\ world = [baseOk |-> TRUE, gitFail |-> 0, localFail |-> 0, pwFail |-> 0,
                statefiles |-> <<>>]
    /\ files = {}
    /\ trace = <<>>
    /\ exitcode = Running

NextKtree == KtreeMergeGitRef
SpecKtree == InitKtree /\ [][NextKtree]_vars

(***************************************************************************)
(* The source tree on its own: the base checkout, then up to MaxIdx        *)
(* merges and patches in any order, each succeeding or failing, then the   *)
(* provenance file.                                                        *)
(***************************************************************************)
PatchFiles == {"a.patch", "b.patch"}
PatchworkUrls == {"http://pw/patch/1", "http://pw/patch/2"}

\* bhead = ktree.checkout()
KtreeCheckout ==
    /\ pc = "ktree_new"
    /\ \E ok \in BOOLEAN :
         IF ok
         THEN /\ ktree' = checkout(ktree)
              /\ trace' = Append(trace, Event("checkout", "", Commit(0)))
              /\ pc' = "ktree"
         ELSE /\ trace' = Append(trace, Event("checkout", "", "raise"))
              /\ pc' = "raised"
              /\ UNCHANGED ktree
    /\ UNCHANGED <<args, disk, parser, cfg, retcode, loc, world, files, exitcode>>

\* ktree.merge_patch_file(patch)
KtreeMergePatchFile ==
    /\ pc = "ktree"
    /\ loc.idx < MaxIdx
    /\ \E patch \in PatchFiles, ok \in BOOLEAN :
         IF ok
         THEN /\ ktree' = merge_patch_file(ktree, patch)
              /\ trace' = Append(trace, Event("merge_patch_file", patch, "ok"))
              /\ loc' = [loc EXCEPT !.idx = @ + 1]
              /\ pc' = "ktree"
         ELSE \* git am fails: git am --abort, raise
              /\ trace' = Append(trace, Event("merge_patch_file", patch, "raise"))
              /\ pc' = "raised"
              /\ UNCHANGED <<ktree, loc>>
    /\ UNCHANGED <<args, disk, parser, cfg, retcode, world, files, exitcode>>

\* ktree.merge_patchwork_patch(patch)
KtreeMergePatchworkPatch ==
    /\ pc = "ktree"
    /\ loc.idx < MaxIdx
    /\ \E patch \in PatchworkUrls, ok \in BOOLEAN :
         IF ok
         THEN /\ ktree' = merge_patchwork_patch(ktree, patch)
              /\ trace' = Append(trace, Event("merge_patchwork_patch", patch, "ok"))
              /\ loc' = [loc EXCEPT !.idx = @ + 1]
              /\ pc' = "ktree"
              /\ UNCHANGED files
         ELSE \* git am fails: git am --abort, the merge log, raise
              /\ trace' = Append(trace,
                                 Event("merge_patchwork_patch", patch, "raise"))
              /\ files' = files \cup {ktree.mergelog}
              /\ pc' = "raised"
              /\ UNCHANGED <<ktree, loc>>
    /\ UNCHANGED <<args, disk, parser, cfg, retcode, world, exitcode>>

\* buildinfo = ktree.dumpinfo()
KtreeDumpinfo ==
    /\ pc = "ktree"
    /\ LET d == dumpinfo(ktree)
       IN  /\ files' = files \cup {d.fpath}
           /\ trace' = Append(trace, [op |-> "dumpinfo", a |-> d.fpath, b |-> "",
                                      lines |-> d.lines])
    /\ pc' = "dumped"
    /\ UNCHANGED <<args, disk, parser, cfg, retcode, loc, ktree, world, exitcode>>

InitTree ==
    /\ \E wd \in BOOLEAN :
         args = ParseArgs("merge",
                 [x \in {"baserepo"} \cup (IF wd THEN {"workdir"} ELSE {}) |->
                     IF x = "baserepo" THEN StrV("git://base") ELSE StrV("/w")],
                 NoLists)
    /\ disk = EmptyFile
    /\ parser = EmptyFile
    /\ cfg = ArgsCfg(args)
    /\ retcode = 0
    /\ pc = "ktree_new"
    /\ loc = NoLocals
    /\ ktree = ktree_init(ArgsCfg(args))
    /\ world = [baseOk |-> TRUE, gitFail |-> 0, localFail |-> 0, pwFail |-> 0,
                statefiles |-> <<>>]
    /\ files = {ktree_init(ArgsCfg(args)).wdir}
    /\ trace = <<>>
    /\ exitcode = Running

NextTree ==
    \/ KtreeCheckout
    \/ KtreeMergeGitRef
    \/ KtreeMergePatchFile
    \/ KtreeMergePatchworkPatch
    \/ KtreeDumpinfo
SpecTree == InitTree /\ [][NextTree]_vars

(***************************************************************************)
(* parse_patchwork_url and RpcWrapper on their own: every URI, every       *)
(* answer of the server to pw_rpc_version, then up to MaxRpcCalls calls    *)
(* through the client.                                                     *)
(***************************************************************************)
\* the most calls made through the client
MaxRpcCalls == 2
\* RpcWrapper.version, the patchwork api coded to
RpcVersion == 1010

VerInt(n) == [kind |-> "int", n |-> n]
VerList(l) == [kind |-> "list", l |-> l]
Fault(code, text) == [kind |-> "fault", code |-> code, text |-> text]
\* the reply to a call that carries the version: [version, value]
Versioned(first, value) == [kind |-> "versioned", first |-> first, value |-> value]
VersionReplies ==
    {VerInt(1), VerInt(2), VerInt(1009), VerInt(RpcVersion), VerList(<<1, 3, 0>>),
     VerList(<<1, 2, 0>>)}
FaultTexts == {"index out of range", "list index out of range",
               "method not supported"}
Faults == {Fault(c, t) : c \in {1, 2}, t \in FaultTexts}
\* what the server answers to pw_rpc_version()
PlainReplies == VersionReplies \cup Faults
\* what the server answers to pw_rpc_version(1010)
WrappedReplies ==
    {Versioned(f, v) : f \in {RpcVersion, 1}, v \in VersionReplies} \cup Faults
PatchIds == {"1", "2"}
PatchworkUris ==
    PatchworkUrls \cup {"http://pw/patch/1/", "http://pw/project/1"}

\* re.match("^(.*)/patch/(\d+)/?$", uri)
UrlMatches(uri) ==
    \E id \in PatchIds, slash \in {"", "/"} : uri = "http://pw/patch/" \o id \o slash
PatchIdOf(uri) ==
    CHOOSE id \in PatchIds :
        \E slash \in {"", "/"} : uri = "http://pw/patch/" \o id \o slash
\* re.search("index out of range", err.faultString)
OutOfRange(text) ==
    \E pre \in {"", "list "} : text = pre \o "index out of range"
\* ver < 1010, as Python 2 orders values: an int is below every list
LessThan(ver, n) == ver.kind = "int" /\ ver.n < n

\* RpcWrapper.__getattr__(name)(*args): what is sent, and what comes back
RpcWrapperCall(callargs, reply) ==
    LET sent == <<RpcVersion>> \o callargs
    IN  IF reply.kind = "fault"
        THEN [sent |-> sent, raised |-> "Fault", value |-> None]
        ELSE IF reply.first # RpcVersion
        THEN [sent |-> sent, raised |-> "RpcProtocolMismatch", value |-> None]
        ELSE [sent |-> sent, raised |-> "", value |-> reply.value]
\* the same call through xmlrpclib.ServerProxy
PlainCall(callargs, reply) ==
    IF reply.kind = "fault"
    THEN [sent |-> callargs, raised |-> "Fault", value |-> None]
    ELSE [sent |-> callargs, raised |-> "", value |-> reply]

\* a negotiation that wraps the client on every fault
parse_patchwork_url_AnyFault(uri, plain, wrapped) ==
    LET patchid == IF UrlMatches(uri) THEN PatchIdOf(uri) ELSE ""
        raise(e) == [raised |-> e, rpc |-> "", patchid |-> patchid]
        w == RpcWrapperCall(<<>>, wrapped)
    IN  IF ~UrlMatches(uri) THEN raise("Exception: can't parse")
        ELSE IF plain.kind = "fault"
        THEN IF w.raised # "" THEN raise(w.raised)
             ELSE IF LessThan(w.value, RpcVersion)
             THEN raise("Exception: unsupported version")
             ELSE [raised |-> "", rpc |-> "wrapped", patchid |-> patchid]
        ELSE IF plain = VerList(<<1, 3, 0>>) \/ plain = VerInt(1)
        THEN [raised |-> "", rpc |-> "plain", patchid |-> patchid]
        ELSE raise("Exception: unknown version")
\* parse_patchwork_url(uri): (rpc, patchid), or the exception raised
parse_patchwork_url(uri, plain, wrapped) ==
    LET patchid == IF UrlMatches(uri) THEN PatchIdOf(uri) ELSE ""
        raise(e) == [raised |-> e, rpc |-> "", patchid |-> patchid]
        w == RpcWrapperCall(<<>>, wrapped)
    IN  IF ~UrlMatches(uri) THEN raise("Exception: can't parse")
        ELSE IF plain.kind = "fault"
        THEN IF plain.code = 1 /\ OutOfRange(plain.text)
             THEN \* rpc = RpcWrapper(rpc); ver = rpc.pw_rpc_version()
                  IF w.raised # "" THEN raise(w.raised)
                  ELSE IF LessThan(w.value, RpcVersion)
                  THEN raise("Exception: unsupported version")
                  ELSE [raised |-> "", rpc |-> "wrapped", patchid |-> patchid]
             ELSE raise("Exception: unknown fault")
        ELSE IF plain = VerList(<<1, 3, 0>>) \/ plain = VerInt(1)
        THEN [raised |-> "", rpc |-> "plain", patchid |-> patchid]
        ELSE raise("Exception: unknown version")

\* (rpc, patchid) = parse_patchwork_url(uri)
ParsePatchworkUrl ==
    /\ pc = "pw_new"
    /\ \E uri \in PatchworkUris, plain \in PlainReplies, wrapped \in WrappedReplies :
         LET r == parse_patchwork_url(uri, plain, wrapped)
         IN  /\ trace' = Append(trace, [op |-> "parse_patchwork_url", a |-> uri,
                                        b |-> r.raised, plain |-> plain,
                                        wrapped |-> wrapped, rpc |-> r.rpc])
             /\ loc' = [rpc |-> r.rpc, patchid |-> r.patchid]
             /\ pc' = IF r.raised = "" THEN "pw_ready" ELSE "raised"
    /\ UNCHANGED <<args, disk, parser, cfg, retcode, ktree, world, files, exitcode>>

\* rpc.patch_get(patchid), rpc.patch_get_mbox(patchid)
RpcCall ==
    /\ pc = "pw_ready"
    /\ Len(trace) <= MaxRpcCalls
    /\ \E name \in {"patch_get", "patch_get_mbox"},
          reply \in {Versioned(f, StrV(v)) : f \in {RpcVersion, 1, 1011},
                                             v \in {"", "mbox"}}
                    \cup {Fault(2, "method not supported")} :
         LET served == IF loc.rpc = "wrapped" \/ reply.kind = "fault"
                       THEN reply ELSE reply.value
             r == IF loc.rpc = "wrapped"
                  THEN RpcWrapperCall(<<loc.patchid>>, served)
                  ELSE PlainCall(<<loc.patchid>>, served)
         IN  /\ trace' = Append(trace, [op |-> "rpc", a |-> name, b |-> r.raised,
                                        sent |-> r.sent, reply |-> served,
                                        value |-> r.value])
             /\ pc' = IF r.raised = "" THEN "pw_ready" ELSE "raised"
    /\ UNCHANGED <<args, disk, parser, cfg, retcode, loc, ktree, world, files,
                   exitcode>>

InitPatchwork ==
    /\ args = ParseArgs("merge", Put(EmptyDict, "baserepo", StrV("git://base")),
                        NoLists)
    /\ disk = EmptyFile
    /\ parser = EmptyFile
    /\ cfg = ArgsCfg(args)
    /\ retcode = 0
    /\ pc = "pw_new"
    /\ loc = NoLocals
    /\ ktree = NoTree
    /\ world = [baseOk |-> TRUE, gitFail |-> 0, localFail |-> 0, pwFail |-> 0,
                statefiles |-> <<>>]
    /\ files = {}
    /\ trace = <<>>
    /\ exitcode = Running

NextPatchwork == ParsePatchworkUrl \/ RpcCall
SpecPatchwork == InitPatchwork /\ [][NextPatchwork]_vars

(***************************************************************************)
(* save_state on its own: up to MaxSaves calls after load_config, with     *)
(* and without --state, on rc files with and without a [state] section,    *)
(* with null and non-null values.                                          *)
(***************************************************************************)
\* the most calls of save_state
MaxSaves == 2
\* the dictionaries passed to save_state
SavedStates ==
    {<<>>,
     << <<"basehead", StrV("h1")>> >>,
     << <<"basehead", None>> >>,
     << <<"retcode", IntV(1)>> >>,
     << <<"mergelog", None>>, <<"retcode", IntV(0)>> >>,
     << <<"basehead", StrV("h2")>>, <<"mergelog", StrV("/w/merge.log")>> >>}
\* the [state] sections an earlier run has left
SaveStateSections ==
    {<<>>, << <<"basehead", StrV("h0")>> >>,
     << <<"basehead", StrV("h0")>>, <<"mergelog", StrV("/old/merge.log")>>,
        <<"uid", StrV("[baseline]")>> >>}

\* save_state(cfg, state)
SaveStateCall ==
    /\ pc = "loaded"
    /\ loc.idx < MaxSaves
    /\ \E state \in SavedStates : Step(SaveState(Cur, state), "loaded")
    /\ loc' = [loc EXCEPT !.idx = @ + 1]
    /\ UNCHANGED <<args, ktree, world, files>>

InitSave ==
    /\ \E st \in BOOLEAN :
         args = ParseArgs("merge", Put(EmptyDict, "state", BoolV(st)), NoLists)
    /\ \E ss \in SaveStateSections, hs \in BOOLEAN,
          cs \in {<<>>, << <<"workdir", StrV("/config")>> >>},
          pb \in {NoList, ThePublisher} :
         /\ hs \/ ss = <<>>
         /\ disk = [EmptyFile EXCEPT !.hasState = hs, !.state = ss,
                                     !.hasConfig = cs # <<>>, !.config = cs,
                                     !.publisher = pb]
    /\ parser = EmptyFile
    /\ cfg = ArgsCfg(args)
    /\ retcode = 0
    /\ pc = "start"
    /\ loc = NoLocals
    /\ ktree = NoTree
    /\ world = [baseOk |-> TRUE, gitFail |-> 0, localFail |-> 0, pwFail |-> 0,
                statefiles |-> <<>>]
    /\ files = {}
    /\ trace = <<>>
    /\ exitcode = Running

NextSave == LoadConfig \/ SaveStateCall
SpecSave == InitSave /\ [][NextSave]_vars

(***************************************************************************)
(* KernelBuilder.mktgz (skt/kernelbuilder.py) on its own: every exit       *)
(* status of the build, build log and set of existing tarballs of the      *)
(* bounds.                                                                 *)
(***************************************************************************)
\* the most lines of a build log
MaxLogLines == 2
\* the exit status of timeout(1) when the time is up
TimeoutStatus == 124
ExitStatuses == {0, 1, 2, TimeoutStatus}
TarballNames == {"linux-4.17.0.tar.gz", "linux-4.17.1.tar.gz"}
TarballLine(name) == "Tarball successfully created in " \o name
LogLines == {"  CC      init/main.o",
             "echo " \o TarballLine("linux-4.17.0.tar.gz")}
            \cup {TarballLine(n) : n \in TarballNames}
SourceDir == "/w"

\* re.compile("^Tarball successfully created in (.*)$").search(log_line)
TarballMatch(line) ==
    IF \E n \in TarballNames : line = TarballLine(n)
    THEN StrV(CHOOSE n \in TarballNames : line = TarballLine(n))
    ELSE None
\* KernelBuilder.find_tarball: the path of the first matching line, or None
RECURSIVE find_tarball(_)
find_tarball(log) ==
    IF log = <<>> THEN None
    ELSE IF TarballMatch(Head(log)) # None
    THEN StrV(SourceDir \o "/" \o TarballMatch(Head(log)).s)
    ELSE find_tarball(Tail(log))

\* a mktgz that looks for the tarball before it looks at the exit status
mktgz_TarballFirst(prepared, returncode, log, existing) ==
    LET fpath == find_tarball(log)
    IN  IF ~prepared THEN [raised |-> "CalledProcessError", path |-> None]
        ELSE IF fpath = None THEN [raised |-> "ParsingError", path |-> None]
        ELSE IF returncode = TimeoutStatus
        THEN [raised |-> "CommandTimeoutError", path |-> None]
        ELSE IF returncode # 0
        THEN [raised |-> "CalledProcessError", path |-> None]
        ELSE IF fpath.s \notin existing THEN [raised |-> "IOError", path |-> None]
        ELSE [raised |-> "", path |-> fpath]
\* KernelBuilder.mktgz: the exception raised, or the path returned
mktgz(prepared, returncode, log, existing) ==
    LET fpath == find_tarball(log)
    IN  IF ~prepared
        THEN \* __prepare_kernel_config: subprocess.check_call fails
             [raised |-> "CalledProcessError", path |-> None]
        ELSE IF returncode = TimeoutStatus
        THEN [raised |-> "CommandTimeoutError", path |-> None]
        ELSE IF returncode # 0
        THEN [raised |-> "CalledProcessError", path |-> None]
        ELSE IF fpath = None
        THEN [raised |-> "ParsingError", path |-> None]
        ELSE IF fpath.s \notin existing
        THEN [raised |-> "IOError", path |-> None]
        ELSE [raised |-> "", path |-> fpath]

\* builder.mktgz(): the answers of make are inputs
KernelBuilderMktgz ==
    /\ pc = "mktgz"
    /\ \E prepared \in BOOLEAN, returncode \in ExitStatuses,
          log \in SeqsUpTo(LogLines, MaxLogLines) :
         LET r == mktgz(prepared, returncode, log, files)
         IN  /\ trace' = Append(trace, [op |-> "KernelBuilder.mktgz",
                                        prepared |-> prepared,
                                        returncode |-> returncode,
                                        log |-> log, raised |-> r.raised,
                                        path |-> r.path])
             /\ pc' = IF r.raised = "" THEN "built" ELSE "raised"
    /\ files' = files \cup {SourceDir \o "/build.log"}
    /\ UNCHANGED <<args, disk, parser, cfg, retcode, loc, ktree, world, exitcode>>

InitBuilder ==
    /\ args = ParseArgs("build", Put(EmptyDict, "workdir", StrV(SourceDir)),
                        NoLists)
    /\ disk = EmptyFile
    /\ parser = EmptyFile
    /\ cfg = ArgsCfg(args)
    /\ retcode = 0
    /\ pc = "mktgz"
    /\ loc = NoLocals
    /\ ktree = NoTree
    /\ world = [baseOk |-> TRUE, gitFail |-> 0, localFail |-> 0, pwFail |-> 0,
                statefiles |-> <<>>]
    /\ files \in SUBSET {SourceDir \o "/" \o n : n \in TarballNames}
    /\ trace = <<>>
    /\ exitcode = Running

NextBuilder == KernelBuilderMktgz
SpecBuilder == InitBuilder /\ [][NextBuilder]_vars

(***************************************************************************)
(* skt.py report, and the reporter, over every state snapshot of the       *)
(* bounds.                                                                 *)
(***************************************************************************)
\* the most state files given to a multi-report
MaxStateFiles == 2

\* a [state] section with the keys the reporter classifies by
ReporterSection(mergelog, buildlogs, rc) ==
    (IF mergelog THEN << <<"mergelog", StrV("/old/merge.log")>> >> ELSE <<>>)
    \o [i \in 1..Len(buildlogs) |->
           <<"buildlog_" \o buildlogs[i],
             StrV(ObjDir("/old", buildlogs[i]) \o "/build.log")>>]
    \o (IF rc # "" THEN << <<"retcode", StrV(rc)>> >> ELSE <<>>)
\* the snapshots of the state files of a multi-report
StateFileSnapshots ==
    {UpdateCfg(EmptyDict, ReporterSection(m, b, r)) :
        m \in BOOLEAN, b \in {<<>>, <<"s390x">>}, r \in {"0", "1"}}

InitReporter ==
    /\ args = ParseArgs("report", Put(EmptyDict, "state", BoolV(TRUE)), NoLists)
    /\ \E m \in BOOLEAN, b \in {<<>>, <<"x86_64">>, <<"s390x">>, <<"s390x", "x86_64">>},
          r \in {"", "0", "1"} :
         disk = [EmptyFile EXCEPT !.hasState = TRUE,
                                  !.state = ReporterSection(m, b, r),
                                  !.reporter = TheReporter]
    /\ \E sf \in SeqsUpTo(StateFileSnapshots, MaxStateFiles) :
         world = [baseOk |-> TRUE, gitFail |-> 0, localFail |-> 0, pwFail |-> 0,
                  statefiles |-> sf]
    /\ parser = EmptyFile
    /\ cfg = ArgsCfg(args)
    /\ retcode = 0
    /\ pc = "start"
    /\ loc = NoLocals
    /\ ktree = NoTree
    /\ files = {}
    /\ trace = <<>>
    /\ exitcode = Running

NextReporter ==
    \/ LoadConfig
    \/ Dispatch
    \/ cmd_report
    \/ MainExit
SpecReporter == InitReporter /\ [][NextReporter]_vars

(***************************************************************************)
(* Properties of load_config.                                              *)
(***************************************************************************)
Loaded == pc = "loaded"
StateEnabled == Truthy(Get(args.flat, "state"))
InBothSections == SecKeys(disk.state) \cap SecKeys(disk.config)
\* the option was not given on the command line: its destination is absent
\* from the subcommand's namespace or still holds its default
NotOnCli(k) == k \notin DOMAIN args.flat \/ args.flat[k] = Default(args.cmd, k)
\* the command line gives the key no value: absent from the namespace, or None
NoCliValue(k) == k \notin DOMAIN args.flat \/ args.flat[k].kind = "none"
\* no section overwrites a value the command line provided
CliValuesKept ==
    \A k \in DOMAIN args.flat : args.flat[k] # None => cfg.flat[k] = args.flat[k]

\* C4 (as claimed): after load_config a command-line value is never
\* overwritten by [state] or [config], and a key present in both sections
\* but not given on the command line holds the [state] value.
C4_StateOverConfig ==
    Loaded =>
        /\ CliValuesKept
        /\ \A k \in InBothSections :
               NotOnCli(k) => cfg.flat[k] = SecGet(disk.state, k)

\* C4 (amended): after load_config a command-line value that is not None
\* (argparse defaults such as wait=False included) is never overwritten; a
\* key present in both sections whose command-line value is absent or None
\* holds the [state] value when --state is given, and the [config] value
\* when it is not.
C4_StateOverConfigWhenEnabled ==
    Loaded =>
        /\ CliValuesKept
        /\ \A k \in InBothSections :
               NoCliValue(k) =>
                   cfg.flat[k] = IF StateEnabled THEN SecGet(disk.state, k)
                                 ELSE SecGet(disk.config, k)

C4_Witness ==
    /\ Loaded /\ StateEnabled
    /\ "basehead" \in InBothSections
    /\ SecGet(disk.state, "basehead") # SecGet(disk.config, "basehead")
    /\ cfg.flat["basehead"] = SecGet(disk.state, "basehead")
    /\ "workdir" \in SecKeys(disk.state)
    /\ args.flat["workdir"] = StrV("/cli")
    /\ cfg.flat["workdir"] = StrV("/cli")

\* the values of the [state] options whose name starts with prefix, in file
\* order
RECURSIVE ValuesOf(_, _)
ValuesOf(sec, prefix) ==
    IF sec = <<>> THEN <<>>
    ELSE (IF StartsWith(sec[1][1], prefix) THEN <<sec[1][2].s>> ELSE <<>>)
         \o ValuesOf(Tail(sec), prefix)
Range(seq) == {seq[i] : i \in DOMAIN seq}

\* C7: on load with state enabled, the jobid_* values form the set jobs,
\* the mergerepo_/mergehead_/localpatch_/patchwork_ values are appended to
\* their lists in file order with duplicates kept, every
\* {tarpkg,buildconf,buildurl,cfgurl,buildlog}_{arch} value is at
\* archdata[arch][field], and the flat key is kept as well.
C7_StateExpanded ==
    (Loaded /\ StateEnabled /\ disk.hasState) =>
        /\ cfg.jobs.v = Range(ValuesOf(disk.state, "jobid_"))
        /\ cfg.mergerepos.v = ValuesOf(disk.state, "mergerepo_")
        /\ cfg.mergeheads.v = ValuesOf(disk.state, "mergehead_")
        /\ cfg.localpatches.v = ValuesOf(disk.state, "localpatch_")
        /\ cfg.patchworks.v = ValuesOf(disk.state, "patchwork_")
        /\ \A i \in DOMAIN disk.state :
             LET name == disk.state[i][1]
                 value == disk.state[i][2]
             IN  /\ (\E f \in ArchFields, a \in Arches : name = f \o "_" \o a) =>
                        \A f \in ArchFields, a \in Arches :
                            name = f \o "_" \o a =>
                                /\ cfg.archdata.has
                                /\ a \in DOMAIN cfg.archdata.v
                                /\ f \in DOMAIN cfg.archdata.v[a]
                                /\ cfg.archdata.v[a][f] = value
                 /\ NoCliValue(name) => cfg.flat[name] = value

C7_Witness ==
    /\ Loaded /\ StateEnabled
    /\ cfg.mergerepos.v = <<"git://r1", "git://r1">>
    /\ disk.state[1][1] = "mergerepo_01"
    /\ "mergerepo_00" \in DOMAIN cfg.flat

C7_WitnessJobs ==
    /\ Loaded /\ StateEnabled
    /\ Len(disk.state) = 2
    /\ cfg.jobs.v = {"J:1"}

(***************************************************************************)
(* Properties of cmd_merge.                                                *)
(***************************************************************************)
SourceOps == {"checkout", "merge_git_ref", "merge_patch_file",
              "merge_patchwork_patch"}
\* the sources applied so far, in the order of the calls that applied them
RECURSIVE Applied(_)
Applied(tr) ==
    IF tr = <<>> THEN <<>>
    ELSE (IF tr[1].op \in SourceOps /\ tr[1].b \notin {"raise", "1"}
          THEN <<IF tr[1].op = "checkout" THEN "base" ELSE tr[1].a>>
          ELSE <<>>)
         \o Applied(Tail(tr))
\* the sources in declaration order
Declared == <<"base">> \o cfg.merge_ref.v \o cfg.patchlist.v \o cfg.pw.v
IsPrefix(s, t) == Len(s) <= Len(t) /\ \A i \in 1..Len(s) : s[i] = t[i]
SavedKeys == {trace[i].a : i \in {j \in DOMAIN trace : trace[j].op = "save"}}
MergeEnded == pc \in {"main_end", "exit"}

\* C8: in MERGE the sources are applied in declaration order (base, merge
\* refs, local patches, patchwork patches, each group in index order): what
\* has been applied is always an initial part of the declared order, and a
\* merge that reaches its bookkeeping has applied all of it.
C8_DeclarationOrder ==
    /\ IsPrefix(Applied(trace), Declared)
    /\ "uid" \in SavedKeys => Applied(trace) = Declared

C8_Witness ==
    /\ "uid" \in SavedKeys
    /\ Applied(trace) = <<"base", PatchPath(1), PatchPath(2), PwUrl(1), PwUrl(2)>>

\* C9 (as claimed): mergerepo_NN is persisted before merge_git_ref is
\* attempted for merge ref NN and mergehead_NN only after that merge has
\* succeeded, holding its head; so once the merge loop has dealt with the
\* first merge ref, mergerepo_00 is in the state, and mergehead_00 is there
\* only with a successful merge of that ref.
C9_RepoBeforeMergeHeadAfter ==
    (Len(cfg.merge_ref.v) > 0 /\ "basehead" \in SavedKeys /\ pc # "merge_refs") =>
        /\ "mergerepo_00" \in SavedKeys
        /\ "mergehead_00" \in SavedKeys =>
               \E i \in DOMAIN trace :
                   /\ trace[i].op = "merge_git_ref"
                   /\ trace[i].a = cfg.merge_ref.v[1]
                   /\ trace[i].b = "0"

\* C10 (as claimed): when the merge of a merge ref fails, cmd_merge stops
\* applying sources and still records workdir, buildinfo, buildhead and uid.
C10_BookkeepingAfterFailedMerge ==
    (MergeEnded /\ world.baseOk /\ world.gitFail > 0) =>
        /\ {"workdir", "buildinfo", "buildhead", "uid"} \subseteq SavedKeys
        /\ Len(Applied(trace)) = world.gitFail

(***************************************************************************)
(* Properties of cmd_run.                                                  *)
(***************************************************************************)
\* cmd_run has returned: its last statement has saved retcode
RunReturned == "retcode" \in SavedKeys
\* what runner.getresults() returned
Aggregate ==
    LET i == CHOOSE j \in DOMAIN trace : trace[j].op = "getresults"
    IN  trace[i].b
\* the calls of baserunner.run
BaselineRuns == {i \in DOMAIN trace : trace[i].op = "run"}
BaselineFailed == \E i \in BaselineRuns : trace[i].res # 0
BaselinePassed == \E i \in BaselineRuns : trace[i].res = 0
PersistedIs(k, v) ==
    /\ cfg.flat[k] = v
    /\ StateEnabled => /\ k \in SecKeys(disk.state)
                       /\ SecGet(disk.state, k) = Str(v)

\* C1: after cmd_run has returned, the retcode it persisted (in cfg, and in
\* [state] when --state is given) is 0 if and only if the aggregate result
\* was 0 or the baseline retest ran and returned non-zero; when the baseline
\* retest passes, retcode keeps the non-zero aggregate result.
C1_RetcodeZeroIffPassOrBaselineFails ==
    RunReturned =>
        /\ PersistedIs("retcode", IntV(0)) <=> (Aggregate = "0" \/ BaselineFailed)
        /\ ~PersistedIs("retcode", IntV(0)) => PersistedIs("retcode", IntV(1))
        /\ BaselinePassed => /\ PersistedIs("retcode", IntV(1))
                             /\ PersistedIs("baseretcode", IntV(0))
        /\ pc = "exit" => exitcode = Exited(IF PersistedIs("retcode", IntV(0))
                                            THEN 0 ELSE 1)

\* the aggregate result is 1, the baseline fails too: retcode is coerced to 0
C1_Witness ==
    /\ RunReturned /\ StateEnabled /\ pc = "exit"
    /\ Aggregate = "1"
    /\ BaselineFailed
    /\ PersistedIs("retcode", IntV(0))
    /\ PersistedIs("baseretcode", IntV(1))

C1_WitnessRegression ==
    /\ RunReturned /\ StateEnabled /\ pc = "exit"
    /\ Aggregate = "1"
    /\ BaselinePassed
    /\ PersistedIs("retcode", IntV(1))

\* C2: in cmd_run the baseline retest is submitted exactly when the
\* aggregate result is non-zero, basehead is known, a publisher is
\* configured and basehead differs from buildhead; it is one call of
\* runner.run for {base_url}/{basehead}_{mfarch}.tar.gz on host mfhost with
\* uid "baseline check" and reschedule False, and its result is written as
\* baseretcode.  In every other case there is no such call and baseretcode
\* is not written.
C2_BaselineRetestExactlyWhen ==
    RunReturned =>
        LET basehead == Get(cfg.flat, "basehead")
            buildhead == Get(cfg.flat, "buildhead")
            wanted == /\ Aggregate # "0"
                      /\ Truthy(basehead)
                      /\ cfg.publisher.has
                      /\ basehead # buildhead
        IN  IF wanted
            THEN /\ Cardinality(BaselineRuns) = 1
                 /\ \A i \in BaselineRuns :
                      /\ trace[i].a = cfg.publisher.v[3] \o "/" \o basehead.s
                                      \o "_" \o cfg.flat["mfarch"].s \o ".tar.gz"
                      /\ trace[i].b = cfg.flat["mfhost"].s
                      /\ trace[i].uid = "baseline check"
                      /\ trace[i].reschedule = FALSE
                      /\ PersistedIs("baseretcode", IntV(trace[i].res))
            ELSE /\ BaselineRuns = {}
                 /\ "baseretcode" \notin SavedKeys
                 /\ "baseretcode" \notin DOMAIN cfg.flat
                 /\ "baseretcode" \notin SecKeys(disk.state)

C2_Witness ==
    /\ RunReturned /\ StateEnabled
    /\ Get(cfg.flat, "basehead") = StrV(Commit(0))
    /\ Get(cfg.flat, "buildhead") = StrV(Commit(1))
    /\ \E i \in BaselineRuns :
         /\ trace[i].a = "http://url/h0_s390x.tar.gz"
         /\ trace[i].b = Host("s390x")
    /\ "baseretcode" \in SecKeys(disk.state)

\* basehead equals buildhead: a failing run is not tested again
C2_WitnessSameHead ==
    /\ RunReturned /\ Aggregate = "1" /\ cfg.publisher.has
    /\ Get(cfg.flat, "basehead") = StrV(Commit(0))
    /\ Get(cfg.flat, "buildhead") = StrV(Commit(0))
    /\ BaselineRuns = {}

(***************************************************************************)
(* Properties of the state keys.                                           *)
(***************************************************************************)
IndexedPrefixes == {"mergerepo_", "mergehead_", "localpatch_", "patchwork_",
                    "jobid_"}

\* C6 (as claimed): every indexed state key written carries a zero-padded
\* two-digit index, and the indices written in a category start at 00 and
\* have no gap.
C6_IndexedKeysPadded ==
    \A k \in SavedKeys, p \in IndexedPrefixes :
        StartsWith(k, p) =>
            \E i \in 0..MaxIdx :
                /\ k = p \o Fmt02d(i)
                /\ \A j \in 0..i : (p \o Fmt02d(j)) \in SavedKeys

\* the keys of cfg this step has added or given another value
Changed == {k \in DOMAIN cfg'.flat : k \notin DOMAIN cfg.flat \/ cfg.flat[k] # cfg'.flat[k]}

\* C3: with state persistence enabled, every step of a stage that changes
\* state keys in memory leaves each changed key in the [state] section of
\* the rc file with the same value (as the text str() gives, which is what
\* the file holds).
C3_DiskReflectsMemory ==
    [][(pc # "start" /\ Truthy(Get(cfg'.flat, "state"))) =>
           \A k \in Changed :
               /\ disk'.hasState
               /\ k \in SecKeys(disk'.state)
               /\ SecGet(disk'.state, k) = Str(cfg'.flat[k])]_vars

\* the whole pipeline has run with --state and cleanup has not yet removed
\* the section: what merge, build and run have saved is in the file
C3_Witness ==
    /\ StateEnabled /\ args.cmd = "all" /\ pc = "cleanup"
    /\ {"buildhead", "localpatch_00", "tarpkg_x86_64", "jobid_0", "retcode"}
           \subseteq SavedKeys
    /\ \A k \in SavedKeys : /\ k \in SecKeys(disk.state)
                            /\ SecGet(disk.state, k) = Str(cfg.flat[k])

\* a later invocation of skt.py --state build on the same rc file
Reloaded ==
    load_config(ParseArgs("build", Put(EmptyDict, "state", BoolV(TRUE)), NoLists),
                disk)
\* one stage was run with --state and has returned without raising
StageReturned ==
    /\ pc = "main_end"
    /\ args.cmd \in {"merge", "build", "publish", "run"}
    /\ Get(cfg.flat, "junit") = None
    /\ StateEnabled

\* C5 (as claimed): after a successful stage, loading the rc file again
\* with --state gives every state-persisted key the value it had in memory
\* when the stage finished.
C5_RoundTrip ==
    StageReturned =>
        \A k \in SavedKeys :
            /\ k \in DOMAIN Reloaded.flat
            /\ Reloaded.flat[k] = cfg.flat[k]

\* what does hold: every state-persisted key comes back as the text of the
\* value it had in memory
C5_RoundTripAsText ==
    StageReturned =>
        \A k \in SavedKeys :
            /\ k \in DOMAIN Reloaded.flat
            /\ Reloaded.flat[k] = Str(cfg.flat[k])

\* merge has returned: workdir, buildhead and buildinfo are what a later
\* build sees, commitdate is not the integer it was
C5_WitnessMerge ==
    /\ StageReturned /\ args.cmd = "merge"
    /\ \A k \in {"workdir", "buildhead", "buildinfo"} :
           k \in SavedKeys /\ Reloaded.flat[k] = cfg.flat[k]
    /\ cfg.flat["commitdate"] = IntV(1514764800)
    /\ Reloaded.flat["commitdate"] = StrV("1514764800")

(***************************************************************************)
(* Properties of cmd_merge: failures.                                      *)
(***************************************************************************)
\* the stage has failed: the wrapper has set retcode and marked the test
\* case, or (without --junit) the exception has ended the process
StageFailed(stage) ==
    IF Get(cfg.flat, "junit") # None
    THEN /\ retcode # 0
         /\ \E i \in DOMAIN cfg.testcases :
              cfg.testcases[i].name = stage /\ cfg.testcases[i].failure
    ELSE exitcode = Exited(1)

\* C11 (as claimed): when the merge of a merge ref conflicts, merge_git_ref
\* returns (1, None), mergelog is persisted in the state and retcode is
\* non-zero when cmd_merge returns.
C11_FailedMergeRefPersistsLog ==
    (MergeEnded /\ world.baseOk /\ world.gitFail > 0) =>
        /\ \E i \in DOMAIN trace :
             trace[i].op = "merge_git_ref" /\ trace[i].b = "1"
        /\ "mergelog" \in SavedKeys
        /\ retcode # 0

\* an exception is raised inside the try block of cmd_merge: by the loop
\* over the merge refs, by a local patch or by a patchwork patch
RaisedInMerge ==
    /\ world.baseOk
    /\ \/ Len(cfg.merge_ref.v) > 0
       \/ world.localFail > 0
       \/ world.pwFail > 0

\* C12: if an exception is raised while the merge refs, the local patches
\* or the patchwork patches are applied, cmd_merge saves mergelog =
\* ktree.mergelog (in cfg, and in [state] under --state), the exception
\* leaves cmd_merge so that the stage fails, and the run saves neither
\* buildhead nor buildinfo nor uid.
C12_ExceptionPersistsMergelog ==
    (MergeEnded /\ RaisedInMerge) =>
        /\ "mergelog" \in SavedKeys
        /\ cfg.flat["mergelog"] = StrV(ktree.wdir \o "/merge.log")
        /\ StateEnabled =>
               /\ "mergelog" \in SecKeys(disk.state)
               /\ SecGet(disk.state, "mergelog") = StrV(ktree.wdir \o "/merge.log")
        /\ StageFailed("merge")
        /\ SavedKeys \cap {"buildhead", "buildinfo", "uid"} = {}

\* the second patchwork patch fails after two local patches were applied
C12_Witness ==
    /\ MergeEnded /\ RaisedInMerge /\ StateEnabled
    /\ world.pwFail = 2
    /\ Applied(trace) = <<"base", PatchPath(1), PatchPath(2), PwUrl(1)>>
    /\ cfg.flat["workdir"] = StrV("/w")
    /\ SecGet(disk.state, "mergelog") = StrV("/w/merge.log")
    /\ "uid" \notin SavedKeys

\* a local patch fails
C12_WitnessLocalPatch ==
    /\ MergeEnded /\ RaisedInMerge
    /\ world.localFail = 1
    /\ "mergelog" \in SavedKeys

(***************************************************************************)
(* Properties of cmd_merge: uid.                                           *)
(***************************************************************************)
\* cmd_merge has reached its last save_state
MergeSucceeded == MergeEnded /\ "uid" \in SavedKeys
\* the uid made of the tags of the kinds given
UidOf(git, localpatch, patchwork) ==
    CASE  git /\  localpatch /\  patchwork -> "[git] [local patch] [patchwork]"
      []  git /\  localpatch /\ ~patchwork -> "[git] [local patch]"
      []  git /\ ~localpatch /\  patchwork -> "[git] [patchwork]"
      []  git /\ ~localpatch /\ ~patchwork -> "[git]"
      [] ~git /\  localpatch /\  patchwork -> "[local patch] [patchwork]"
      [] ~git /\  localpatch /\ ~patchwork -> "[local patch]"
      [] ~git /\ ~localpatch /\  patchwork -> "[patchwork]"
      [] OTHER                             -> "[baseline]"
\* the kinds of source of which the run has applied at least one
AppliedKind(op) ==
    \E i \in DOMAIN trace : trace[i].op = op /\ trace[i].b \notin {"raise", "1"}

\* C13: after a successful merge with no merge ref, local patch or
\* patchwork patch, basehead equals buildhead and uid is "[baseline]";
\* with such sources uid is made of the tag of every kind that was applied
\* and is not "[baseline]".
C13_UidAndHeads ==
    MergeSucceeded =>
        IF Len(Declared) = 1
        THEN /\ cfg.flat["basehead"] = cfg.flat["buildhead"]
             /\ cfg.flat["uid"] = StrV("[baseline]")
        ELSE /\ cfg.flat["uid"] = StrV(UidOf(AppliedKind("merge_git_ref"),
                                            AppliedKind("merge_patch_file"),
                                            AppliedKind("merge_patchwork_patch")))
             /\ cfg.flat["uid"] # StrV("[baseline]")

C13_Witness ==
    /\ MergeSucceeded /\ Len(Declared) = 1
    /\ cfg.flat["basehead"] = StrV(Commit(0))
    /\ cfg.flat["buildhead"] = StrV(Commit(0))
    /\ cfg.flat["uid"] = StrV("[baseline]")

C13_WitnessSources ==
    /\ MergeSucceeded
    /\ Len(cfg.patchlist.v) = 1 /\ Len(cfg.pw.v) = 2
    /\ cfg.flat["uid"] = StrV("[local patch] [patchwork]")
    /\ cfg.flat["buildhead"] = StrV(Commit(3))

\* C14: the uid cmd_merge records is "[baseline]" or the tags "[git]",
\* "[local patch]", "[patchwork]" of a subset of the kinds, in that order,
\* joined by spaces, each tag once however many sources of its kind there
\* are.
C14_UidShape ==
    "uid" \in SavedKeys =>
        \E g, l, p \in BOOLEAN : cfg.flat["uid"] = StrV(UidOf(g, l, p))

\* two local patches and two patchwork patches: each tag once
C14_Witness ==
    /\ "uid" \in SavedKeys
    /\ Len(cfg.patchlist.v) = 2 /\ Len(cfg.pw.v) = 2
    /\ Len(Applied(trace)) = 5
    /\ cfg.flat["uid"] = StrV("[local patch] [patchwork]")

(***************************************************************************)
(* Properties of cmd_build.                                                *)
(***************************************************************************)
\* this step is an iteration of the loop of cmd_build in which mktgz has
\* built the tarball of arch and getrelease finds the release
Builds(arch) ==
    /\ pc = "build_arch"
    /\ Len(trace') > Len(trace)
    /\ trace'[Len(trace) + 1] = Event("mktgz", arch, "ok")
\* the provenance file of the merge is known and exists
BuildinfoPresent ==
    /\ Get(cfg.flat, "buildinfo") # None
    /\ Get(cfg.flat, "buildinfo").s \in files
\* name carries the timestamp of the run before its base name
TstampPrefixed(name) ==
    \E d \in {""} \cup {x \o "/" : x \in DirNames}, b \in {"linux.tar.gz",
            "buildinfo.csv", "buildinfo_x86_64.config", "buildinfo_s390x.config"} :
        name = d \o Tstamp \o "-" \o b

\* C15 (as claimed): an iteration of cmd_build that builds an architecture
\* persists tarpkg_{arch} = {buildhead}_{arch}.tar.gz, buildconf_{arch} =
\* {buildhead}_{arch}.config and buildinfo = {buildhead}.csv when buildhead
\* is known, and the same three keys with names prefixed by the timestamp
\* of the run when it is not.
C15_ArtifactNames ==
    [][\A arch \in Arches :
         (Builds(arch) /\ BuildinfoPresent) =>
             LET buildhead == Get(cfg.flat, "buildhead")
                 tarpkg == Get(cfg'.flat, "tarpkg_" \o arch)
                 buildconf == Get(cfg'.flat, "buildconf_" \o arch)
                 buildinfo == Get(cfg'.flat, "buildinfo")
             IN  IF buildhead # None
                 THEN /\ tarpkg = StrV(buildhead.s \o "_" \o arch \o ".tar.gz")
                      /\ buildconf = StrV(buildhead.s \o "_" \o arch \o ".config")
                      /\ buildinfo = StrV(buildhead.s \o ".csv")
                 ELSE /\ tarpkg # None /\ TstampPrefixed(tarpkg.s)
                      /\ buildconf # None /\ TstampPrefixed(buildconf.s)
                      /\ TstampPrefixed(buildinfo.s)]_vars

\* the half of C15 that holds: the names when buildhead is known
C15_NamesWhenBuildheadKnown ==
    [][\A arch \in Arches :
         (Builds(arch) /\ BuildinfoPresent /\ Get(cfg.flat, "buildhead") # None) =>
             LET buildhead == Get(cfg.flat, "buildhead")
             IN  /\ Get(cfg'.flat, "tarpkg_" \o arch)
                        = StrV(buildhead.s \o "_" \o arch \o ".tar.gz")
                 /\ Get(cfg'.flat, "buildconf_" \o arch)
                        = StrV(buildhead.s \o "_" \o arch \o ".config")
                 /\ Get(cfg'.flat, "buildinfo") = StrV(buildhead.s \o ".csv")]_vars

\* the architectures whose mktgz has raised, in prepare or for want of a
\* tarball
BuildFailures ==
    {i \in DOMAIN trace : /\ trace[i].op = "mktgz"
                          /\ trace[i].b \in {"prepare fails", "no tarball"}}

\* C16: if mktgz raises for an architecture, cmd_build saves
\* buildlog_{arch} (the path of the build log in the object directory of
\* that architecture) and no tarpkg_{arch}, the exception leaves cmd_build
\* so that the stage fails, and no architecture is built after it.
C16_BuildFailurePersistsLog ==
    \A i \in BuildFailures :
        LET arch == trace[i].a
            buildlog == StrV(ObjDir(cfg.flat["workdir"].s, arch) \o "/build.log")
        IN  /\ ("buildlog_" \o arch) \in SavedKeys
            /\ cfg.flat["buildlog_" \o arch] = buildlog
            /\ StateEnabled =>
                   /\ ("buildlog_" \o arch) \in SecKeys(disk.state)
                   /\ SecGet(disk.state, "buildlog_" \o arch) = buildlog
            /\ ("tarpkg_" \o arch) \notin SavedKeys
            /\ \A j \in DOMAIN trace : trace[j].op = "mktgz" => j <= i
            /\ pc \in {"main_end", "exit"}
            /\ StageFailed("build")

\* x86_64 is built, then s390x fails: buildlog_s390x set, tarpkg_s390x unset
C16_Witness ==
    /\ StateEnabled
    /\ \E i \in BuildFailures : trace[i].a = "s390x"
    /\ "tarpkg_x86_64" \in SavedKeys
    /\ SecGet(disk.state, "buildlog_s390x") = StrV("/old/build_s390x/build.log")
    /\ "tarpkg_s390x" \notin SavedKeys

(***************************************************************************)
(* Properties of cmd_publish.                                              *)
(***************************************************************************)
\* cmd_publish has returned without raising
PublishReturned == pc \in {"main_end", "exit"} /\ ~StageFailed("publish")
\* the URL under which the publisher serves the file name
UrlOf(name) == StrV(cfg.publisher.v[3] \o "/" \o name)

\* C17 (as claimed): after cmd_publish, for every architecture of
\* archdata, buildurl_{arch} is the URL of that architecture's tarball,
\* and cfgurl_{arch} is recorded exactly for the architectures that have a
\* buildconf and is the URL of that architecture's own config.
C17_UrlsPerArch ==
    PublishReturned =>
        \A arch \in DOMAIN cfg.archdata.v :
            LET archdata == cfg.archdata.v[arch]
            IN  /\ ("buildurl_" \o arch) \in SavedKeys
                /\ cfg.flat["buildurl_" \o arch] = UrlOf(archdata["tarpkg"].s)
                /\ ("cfgurl_" \o arch) \in SavedKeys
                       <=> "buildconf" \in DOMAIN archdata
                /\ "buildconf" \in DOMAIN archdata =>
                       cfg.flat["cfgurl_" \o arch] = UrlOf(archdata["buildconf"].s)

\* the half of C17 that holds: the tarball URLs, and the config URLs of
\* the architectures that have a buildconf
C17_OwnUrls ==
    PublishReturned =>
        \A arch \in DOMAIN cfg.archdata.v :
            LET archdata == cfg.archdata.v[arch]
            IN  /\ ("buildurl_" \o arch) \in SavedKeys
                /\ cfg.flat["buildurl_" \o arch] = UrlOf(archdata["tarpkg"].s)
                /\ "buildconf" \in DOMAIN archdata =>
                       cfg.flat["cfgurl_" \o arch] = UrlOf(archdata["buildconf"].s)

(***************************************************************************)
(* Properties of cmd_run: the job ids.                                     *)
(***************************************************************************)
JobKeys == {k \in SavedKeys : StartsWith(k, "jobid_")}
Submissions == {i \in DOMAIN trace : trace[i].op = "prepare_and_submit"}

RunsAll == args.cmd = "all"
\* cmd_merge has raised: the base checkout or a patch has failed
MergeRaised ==
    \E i \in DOMAIN trace : trace[i].op \in SourceOps /\ trace[i].b = "raise"
\* the positions inside cmd_build, cmd_publish and cmd_run
BuildPcs == {"build_start", "build_arch"}
PublishPcs == {"publish_start", "publish_arch"}
RunPcs == {"run_start", "run_submit", "run_verdict"}

\* C19 (as claimed): in skt.py all, when a stage raises, the wrapper
\* catches the exception and sets retcode, and no later stage of the
\* pipeline is executed: after cmd_merge has raised retcode is non-zero and
\* the run is never inside cmd_build, cmd_publish or cmd_run, and after
\* mktgz has raised in cmd_build the run is never inside cmd_publish or
\* cmd_run.
C19_NoStageAfterFailure ==
    RunsAll =>
        /\ MergeRaised =>
               /\ retcode # 0
               /\ pc \notin BuildPcs \cup PublishPcs \cup RunPcs
        /\ BuildFailures # {} =>
               /\ retcode # 0
               /\ pc \notin PublishPcs \cup RunPcs

\* C20 (as claimed): every execution of skt.py all, the failing ones
\* included, runs cmd_cleanup as its last step before the process exits.
C20_CleanupAlwaysRuns ==
    (RunsAll /\ pc = "exit") =>
        /\ trace # <<>>
        /\ trace[Len(trace)].op = "cleanup"

\* what does hold: with --junit the wrapper swallows every exception of a
\* stage, and cmd_cleanup is the last function cmd_all calls
C20_CleanupWithJunit ==
    (RunsAll /\ pc = "exit" /\ Get(cfg.flat, "junit") # None) =>
        /\ trace # <<>>
        /\ trace[Len(trace)].op = "cleanup"

\* with --junit, cmd_build runs after cmd_merge has raised
C19_BuildAfterFailedMerge ==
    /\ RunsAll /\ MergeRaised
    /\ pc = "build_arch"
    /\ retcode = 1

(***************************************************************************)
(* Properties of cmd_report and cmd_cleanup.                               *)
(***************************************************************************)
Reported == \E i \in DOMAIN trace : trace[i].op = "report"
ReporterConfigured == cfg.reporter.has
WaitRequested == Truthy(Get(cfg.flat, "wait"))

\* C21 (as claimed): reporter.report() is invoked only when a reporter is
\* configured and wait was requested, in skt.py all and in skt.py report
\* alike; otherwise no report is emitted.
C21_ReportOnlyWhenWaitAndReporter ==
    Reported => ReporterConfigured /\ WaitRequested

\* C21 (amended): reporter.report() is invoked only when a reporter is
\* configured; skt.py all invokes it only when wait is True as well, and
\* skt.py report, which has no --wait option, does not look at wait.
C21_ReportOnlyWhenReporter ==
    Reported =>
        /\ ReporterConfigured
        /\ args.cmd \in {"all", "report"}
        /\ RunsAll => Get(cfg.flat, "wait") = BoolV(TRUE)

\* skt.py all --wait with a reporter has reported
C21_Witness ==
    /\ RunsAll /\ Reported
    /\ ReporterConfigured /\ WaitRequested

\* skt.py report has reported although wait was not requested
C21_WitnessReportCommand ==
    /\ args.cmd = "report" /\ Reported
    /\ ~WaitRequested

CleanedUp == \E i \in DOMAIN trace : trace[i].op = "cleanup"
\* the log files the failing stages of this run have written
LogFilesWritten ==
    {ktree.mergelog : i \in {j \in DOMAIN trace :
                                /\ trace[j].op = "merge_patchwork_patch"
                                /\ trace[j].b = "raise"}}
    \cup {ObjDir(Get(cfg.flat, "workdir").s, trace[i].a) \o "/build.log" :
             i \in {j \in DOMAIN trace : /\ trace[j].op = "mktgz"
                                         /\ trace[j].b = "no tarball"}}
LogKeys == {k \in SavedKeys : k = "mergelog" \/ StartsWith(k, "buildlog_")}

\* C22: in skt.py all with wait true, cmd_cleanup never runs before the
\* reporter: when cmd_report is entered nothing has been cleaned up (the
\* log files written by the failing stages exist, and under --state the
\* [state] section holds the mergelog and buildlog keys saved), and a
\* cleanup in the trace of calls comes after every report.
C22_CleanupAfterReport ==
    (RunsAll /\ Get(cfg.flat, "wait") = BoolV(TRUE)) =>
        /\ \A i, j \in DOMAIN trace :
               (trace[i].op = "cleanup" /\ trace[j].op = "report") => j < i
        /\ pc = "report" =>
               /\ ~CleanedUp
               /\ LogFilesWritten \subseteq files
               /\ (StateEnabled /\ LogKeys # {}) =>
                      /\ disk.hasState
                      /\ LogKeys \subseteq SecKeys(disk.state)

\* skt.py --state --junit all --wait has reported on a failed patchwork
\* merge and then cleaned up
C22_Witness ==
    /\ RunsAll /\ Get(cfg.flat, "wait") = BoolV(TRUE) /\ StateEnabled
    /\ "mergelog" \in SavedKeys
    /\ Reported /\ CleanedUp
    /\ pc = "exit"

\* cmd_report is entered with the merge log of a failed merge in place
C22_WitnessAtReport ==
    /\ RunsAll /\ pc = "report" /\ ReporterConfigured /\ StateEnabled
    /\ LogFilesWritten # {}
    /\ "mergelog" \in SecKeys(disk.state)

\* the working directory of the run: the one cfg names, and the one the
\* ktree of this run has created
WorkingDirs ==
    (IF Get(cfg.flat, "workdir") # None THEN {Get(cfg.flat, "workdir").s} ELSE {})
    \cup (IF ktree # NoTree THEN {ktree.wdir} ELSE {})
Wipe == Truthy(Get(cfg.flat, "wipe"))
OtherSections(f) ==
    [hasConfig |-> f.hasConfig, config |-> f.config, publisher |-> f.publisher,
     runner |-> f.runner, reporter |-> f.reporter, hasArches |-> f.hasArches,
     arches |-> f.arches, merges |-> f.merges]

\* C23 (as claimed): after cmd_cleanup the rc file has no [state] section
\* and every other section is as it was; if wipe is set the working
\* directory no longer exists, and if wipe is not set it is kept.
C23_CleanupPostcondition ==
    [][pc = "cleanup" =>
          /\ ~disk'.hasState
          /\ OtherSections(disk') = OtherSections(disk)
          /\ IF Wipe THEN WorkingDirs \cap files' = {}
                     ELSE WorkingDirs \cap files' = WorkingDirs \cap files]_vars

\* what does hold: the rc file part, and the working directory part when
\* cfg['workdir'] names the directory the run has worked in
C23_WhenWorkdirKnown ==
    [][pc = "cleanup" =>
          /\ ~disk'.hasState
          /\ OtherSections(disk') = OtherSections(disk)
          /\ IF Wipe
             THEN Get(cfg.flat, "workdir") # None
                      => Get(cfg.flat, "workdir").s \notin files'
             ELSE WorkingDirs \cap files' = WorkingDirs \cap files]_vars

\* cmd_cleanup has removed a [state] section and the working directory
C23_WipedWorkdir ==
    /\ CleanedUp /\ Wipe /\ StateEnabled
    /\ ktree # NoTree /\ ktree.wdir \notin files
    /\ SavedKeys # {} /\ ~disk.hasState
    /\ pc = "exit" /\ exitcode.code = 0

\* cmd_cleanup has raised with the working directory of the run in place
C23_WorkdirLeftBehind ==
    /\ CleanedUp /\ Wipe
    /\ ktree # NoTree /\ ktree.wdir \in files
    /\ pc = "exit"

\* the local artifacts recorded in cfg: the tarball of every architecture
\* and the provenance CSV
RecordedArtifacts ==
    {cfg.flat[k].s : k \in {x \in DOMAIN cfg.flat :
                               /\ x = "buildinfo" \/ StartsWith(x, "tarpkg_")
                               /\ cfg.flat[x] # None}}

\* C24 (as claimed): cmd_cleanup unlinks every local artifact the run has
\* recorded (tarpkg_{arch} of each architecture, and buildinfo), and a
\* failure to unlink one of them does not abort cleanup.
C24_ArtifactsUnlinked ==
    [][pc = "cleanup" =>
          /\ RecordedArtifacts \cap files' = {}
          /\ ~Wipe => exitcode' = exitcode]_vars

\* what does hold: buildinfo and the file of --tarpkg are unlinked, and a
\* missing file does not abort cleanup
C24_BuildinfoUnlinked ==
    [][pc = "cleanup" =>
          /\ \A k \in {"buildinfo", "tarpkg"} :
                 Get(cfg.flat, k) # None => Get(cfg.flat, k).s \notin files'
          /\ ~Wipe => exitcode' = exitcode]_vars

\* cmd_cleanup has returned and the tarball cmd_build has recorded is
\* still there
C24_TarballLeftBehind ==
    /\ CleanedUp /\ pc = "main_end"
    /\ "tarpkg_x86_64" \in SavedKeys
    /\ Get(cfg.flat, "tarpkg_x86_64").s \in files
    /\ Get(cfg.flat, "buildinfo").s \notin files

(***************************************************************************)
(* Properties of main and of the junit wrapper.                            *)
(***************************************************************************)
\* a stage has ended by a fatal error: the merge or the build has raised
FatalStageError == MergeRaised \/ BuildFailures # {}

\* C25 (as claimed): the exit status is 0 only when the pipeline
\* succeeded: after a fatal stage error it is 1 whatever the later stages
\* do, and otherwise, once cmd_run has returned (and cmd_cleanup has not
\* raised), it is the retcode cmd_run has persisted, the aggregate result
\* after the baseline-retest rule.
C25_ExitCode ==
    pc = "exit" =>
        /\ FatalStageError => exitcode.code = 1
        /\ (~FatalStageError /\ RunReturned /\ ~Wipe) =>
               exitcode.code = (IF cfg.flat["retcode"] = IntV(0) THEN 0 ELSE 1)

\* what does hold: without --junit an exception ends the process with
\* status 1; with --junit the exit status is the retcode of the last stage
\* that has set it, which cmd_run sets whatever happened before
C25_ExitCodeOfLastStage ==
    pc = "exit" =>
        /\ (FatalStageError /\ Get(cfg.flat, "junit") = None) => exitcode.code = 1
        /\ (RunReturned /\ ~Wipe) =>
               exitcode.code = (IF cfg.flat["retcode"] = IntV(0) THEN 0 ELSE 1)

\* skt.py --junit all has exited with status 0 after a failed merge
C25_ExitZeroAfterFailedMerge ==
    /\ RunsAll /\ MergeRaised
    /\ pc = "exit" /\ exitcode = Exited(0)

JunitOn == Get(cfg.flat, "junit") # None
\* the stages a run of the subcommand executes when no exception ends it
StagesOf(cmd, wait) ==
    CASE cmd = "all" -> <<"merge", "build", "publish", "run">>
                        \o (IF wait THEN <<"report">> ELSE <<>>)
      [] cmd \in {"merge", "build", "publish", "run", "report"} -> <<cmd>>
      [] OTHER -> <<>>
WrappedStagesOf(cmd) ==
    CASE cmd = "all" -> <<"merge", "build", "publish", "run">>
      [] cmd \in {"merge", "build", "publish", "run"} -> <<cmd>>
      [] OTHER -> <<>>
\* args.func(cfg) has returned to main, which writes the junit file
JunitFile == Get(cfg.flat, "junit").s \o "/" \o args.cmd \o ".xml"
MainReturns == pc = "main_end" \/ (pc = "exit" /\ JunitFile \in files)
\* cmd_merge has reached its last save_state
MergeCompleted == "uid" \in SavedKeys
TestCaseNames == [i \in DOMAIN cfg.testcases |-> cfg.testcases[i].name]

\* C26 (as claimed): with --junit, every stage that executes (merge, build,
\* publish, run, report) appends exactly one test case, so that the test
\* cases main writes to {DIR}/{subcommand}.xml are those of the executed
\* stages, in order; the test case of cmd_merge carries a failure if and
\* only if cmd_merge has raised instead of completing.
C26_OneTestCasePerStage ==
    (JunitOn /\ MainReturns) =>
        /\ TestCaseNames = StagesOf(args.cmd, Get(cfg.flat, "wait") = BoolV(TRUE))
        /\ args.cmd \in {"merge", "all"} =>
               (cfg.testcases[1].failure <=> ~MergeCompleted)

\* what does hold: one test case for each of merge, build, publish and
\* run; cmd_report is not wrapped and appends none
C26_OneTestCasePerWrappedStage ==
    (JunitOn /\ MainReturns) =>
        /\ TestCaseNames = WrappedStagesOf(args.cmd)
        /\ args.cmd \in {"merge", "all"} =>
               (cfg.testcases[1].failure <=> ~MergeCompleted)

\* skt.py --junit all --wait has reported and holds four test cases
C26_ReportWithoutTestCase ==
    /\ RunsAll /\ JunitOn /\ Reported
    /\ pc = "main_end"
    /\ Len(cfg.testcases) = 4

(***************************************************************************)
(* Properties of the reporter.                                             *)
(***************************************************************************)
HasMergelog(snap) == "mergelog" \in DOMAIN snap /\ snap["mergelog"] # None
HasBuildlog(snap) ==
    \E k \in DOMAIN snap : /\ k = "buildlog" \/ StartsWith(k, "buildlog_")
                           /\ snap[k] # None
TestsFailed(snap) ==
    "retcode" \notin DOMAIN snap \/ snap["retcode"] \notin {IntV(0), StrV("0")}
MultiReport == world.statefiles # <<>>
Reports == {i \in DOMAIN trace : trace[i].op = "report"}

C27_WitnessMultiReport ==
    /\ Reports # {} /\ Len(world.statefiles) = 2
    /\ ~TestsFailed(world.statefiles[1]) /\ ~HasMergelog(world.statefiles[1])
    /\ ~HasBuildlog(world.statefiles[1])
    /\ TestsFailed(world.statefiles[2])
    /\ trace[Len(trace)].b = "FAILED"

(***************************************************************************)
(* Properties of ktree.merge_git_ref.                                      *)
(***************************************************************************)
\* the call of merge_git_ref that the step has made
LastCall == trace'[Len(trace')]
MergedRow(uri) == <<"git", uri, loc'.head.v.s>>
ReturnedSuccess ==
    /\ pc' = "ktree"
    /\ retcode' = 0
    /\ loc'.head.bound /\ loc'.head.v # None
    /\ ktree'.info = Append(ktree.info, MergedRow(LastCall.a))
ReturnedFailure ==
    /\ pc' = "ktree"
    /\ retcode' = 1
    /\ loc'.head = Bound(None)
    /\ ktree'.info = ktree.info
    /\ ~ktree'.dirty

\* C28 (as claimed): merge_git_ref returns (0, head) and appends exactly
\* one ("git", uri, head) row to the provenance list when the merge
\* succeeds; whenever git merge fails it hard-resets the tree, appends
\* nothing and returns (1, None) without raising.
C28_MergeGitRefResult ==
    [][pc = "ktree" =>
          /\ LastCall.b = "ok" => ReturnedSuccess
          /\ LastCall.b \in {"conflict", "conflict, reset fails"} =>
                 ReturnedFailure]_vars

\* C28 (amended): as claimed when the hard reset succeeds; when git reset
\* --hard itself fails, or the fetch fails, the exception leaves
\* merge_git_ref, which returns nothing and appends nothing.
C28_MergeGitRefResultOrRaise ==
    [][pc = "ktree" =>
          /\ LastCall.b = "ok" => ReturnedSuccess
          /\ LastCall.b = "conflict" => ReturnedFailure
          /\ LastCall.b \in {"conflict, reset fails", "fetch fails"} =>
                 /\ pc' = "raised"
                 /\ ktree'.info = ktree.info
                 /\ retcode' = retcode /\ loc' = loc]_vars

\* a merge has failed after one has succeeded: one git row, (1, None)
C28_Witness ==
    /\ pc = "ktree"
    /\ Len(trace) = 2
    /\ trace[1].op = "merge_git_ref" /\ trace[1].b = "ok"
    /\ trace[2].op = "merge_git_ref" /\ trace[2].b = "conflict"
    /\ retcode = 1 /\ loc.head = Bound(None)
    /\ Len(ktree.info) = 2

\* the hard reset has failed: merge_git_ref has raised
C28_WitnessResetFails ==
    /\ pc = "raised"
    /\ trace[Len(trace)].b = "conflict, reset fails"

(***************************************************************************)
(* Properties of KernelBuilder.mktgz.                                      *)
(***************************************************************************)
MktgzCalls == {i \in DOMAIN trace : trace[i].op = "KernelBuilder.mktgz"}
\* the lines of the log that announce a tarball
Announcing(log) ==
    {i \in DOMAIN log : \E n \in TarballNames : log[i] = TarballLine(n)}
\* the file the first of them names
Announced(log) ==
    LET i == CHOOSE j \in Announcing(log) : \A k \in Announcing(log) : j <= k
    IN  SourceDir \o "/" \o (CHOOSE n \in TarballNames : log[i] = TarballLine(n))

\* C29: once the build has run, mktgz classifies its outcome in this
\* order: exit status 124 raises CommandTimeoutError; any other non-zero
\* status raises CalledProcessError; status 0 with no 'Tarball
\* successfully created in' line in the log raises ParsingError; a
\* reported tarball that does not exist raises IOError; only otherwise is
\* the path of the tarball returned.
C29_MktgzClassification ==
    \A i \in MktgzCalls :
        LET e == trace[i]
        IN  e.prepared =>
              /\ e.returncode = TimeoutStatus => e.raised = "CommandTimeoutError"
              /\ e.returncode \notin {0, TimeoutStatus} =>
                     e.raised = "CalledProcessError"
              /\ (e.returncode = 0 /\ Announcing(e.log) = {}) =>
                     e.raised = "ParsingError"
              /\ (e.returncode = 0 /\ Announcing(e.log) # {}
                     /\ Announced(e.log) \notin files) =>
                     e.raised = "IOError"
              /\ (e.returncode = 0 /\ Announcing(e.log) # {}
                     /\ Announced(e.log) \in files) =>
                     /\ e.raised = ""
                     /\ e.path = StrV(Announced(e.log))
              /\ e.raised = "" => (e.returncode = 0 /\ e.path.s \in files)

\* the build has timed out although its log announces an existing tarball
C29_Witness ==
    /\ MktgzCalls # {}
    /\ trace[Len(trace)].prepared
    /\ trace[Len(trace)].returncode = TimeoutStatus
    /\ Announcing(trace[Len(trace)].log) # {}
    /\ Announced(trace[Len(trace)].log) \in files
    /\ trace[Len(trace)].raised = "CommandTimeoutError"

\* the log announces two tarballs, the first of which does not exist
C29_WitnessMissingTarball ==
    /\ MktgzCalls # {}
    /\ trace[Len(trace)].returncode = 0
    /\ Cardinality(Announcing(trace[Len(trace)].log)) = 2
    /\ trace[Len(trace)].raised = "IOError"
    /\ \E n \in TarballNames : SourceDir \o "/" \o n \in files

(***************************************************************************)
(* Properties of cmd_run: the order of its save_state calls.               *)
(***************************************************************************)
SaveCalls == {i \in DOMAIN trace : trace[i].op = "save"}
RetcodeSaves == {i \in SaveCalls : trace[i].a = "retcode"}
\* the keys of the [state] section of the rc file, in the order written
StateKeysOnDisk == [i \in DOMAIN disk.state |-> disk.state[i][1]]

\* C30: in cmd_run, retcode is the last state key persisted: every jobid
\* key, mfhost, mfarch and baseretcode (when written) is persisted before
\* retcode, and retcode is persisted exactly once, after the decision on
\* the baseline retest.
C30_RetcodePersistedLast ==
    /\ Cardinality(RetcodeSaves) <= 1
    /\ \A r \in RetcodeSaves :
          /\ \A i \in SaveCalls : i <= r
          /\ \A i \in BaselineRuns : i < r
          /\ retcode # 0 => \E i \in SaveCalls : i < r /\ trace[i].a = "mfhost"
          /\ \A j \in loc.jobs : \E i \in SaveCalls :
                i < r /\ StartsWith(trace[i].a, "jobid_") /\ trace[i].b = j
          /\ Truthy(Get(cfg.flat, "state")) =>
                /\ disk.hasState
                /\ StateKeysOnDisk[Len(StateKeysOnDisk)] = "retcode"
                /\ Cardinality({i \in DOMAIN StateKeysOnDisk :
                                  StateKeysOnDisk[i] = "retcode"}) = 1
    /\ pc \in {"main_end", "exit"} /\ (\E i \in DOMAIN trace : trace[i].op = "getresults")
          => RetcodeSaves # {}

\* the baseline has been tested again and has failed as well; the rc file
\* holds the job ids, mfhost, mfarch and baseretcode before retcode
C30_Witness ==
    /\ RetcodeSaves # {}
    /\ BaselineRuns # {}
    /\ Truthy(Get(cfg.flat, "state"))
    /\ Cardinality(loc.jobs) = 2
    /\ \E i \in DOMAIN StateKeysOnDisk : StateKeysOnDisk[i] = "baseretcode"
    /\ \E i \in RetcodeSaves : trace[i].b = "0"

\* the runner reports a pass: retcode is persisted with no baseline retest
C30_WitnessPass ==
    /\ RetcodeSaves # {}
    /\ BaselineRuns = {}
    /\ loc.jobs # {}
    /\ \A i \in SaveCalls : trace[i].a # "mfhost"

(***************************************************************************)
(* Properties of ktree.getrname.                                           *)
(***************************************************************************)
GitRefCalls == {i \in DOMAIN trace : trace[i].op = "merge_git_ref"}
\* the names of the form segment, segment_, segment__, ...
RECURSIVE Bumped(_, _)
Bumped(segment, n) ==
    IF n = 0 THEN {segment} ELSE {segment} \cup Bumped(segment \o "_", n - 1)
\* the remotes configured before the i-th event of the trace
RemotesBefore(i) ==
    (ktree.remotes \ {<<trace[j].rname, StrV(trace[j].a)>> : j \in GitRefCalls})
    \cup {<<trace[j].rname, trace[j].url>> : j \in {k \in GitRefCalls : k < i}}

\* C31: for any URI and any set of configured remotes, the remote name
\* getrname chooses is the last path segment of the URI bumped with
\* trailing underscores, and the remote merge_git_ref then fetches from
\* is bound to that URI: a name bound to a different URI is never reused.
C31_RemoteBoundToUri ==
    \A i \in GitRefCalls :
        /\ trace[i].rname \in Bumped(LastSegment(trace[i].a), MaxIdx + 2)
        /\ trace[i].url = StrV(trace[i].a)

\* C31 (what holds): the name chosen is the bumped last segment, the loop
\* ends, and the fetch goes to the URI asked for whenever the name chosen
\* was not bound before the call.
C31_UnboundNameIsBound ==
    \A i \in GitRefCalls :
        /\ trace[i].rname \in Bumped(LastSegment(trace[i].a), MaxIdx + 2)
        /\ get_remote_url(ktree.remotes, trace[i].rname) = trace[i].url
        /\ get_remote_url(RemotesBefore(i), trace[i].rname) = None
              => trace[i].url = StrV(trace[i].a)

\* two repositories with the same last path segment: the second merge
\* fetches from the remote of the first
C31_FetchedFromOtherUri ==
    /\ Len(trace) = 2
    /\ GitRefCalls = {1, 2}
    /\ trace[1].a = Uri("git://a", "linux", TRUE, FALSE)
    /\ trace[2].a = Uri("git://b", "linux", TRUE, TRUE)
    /\ trace[1].rname = "linux" /\ trace[2].rname = "linux"
    /\ trace[2].url = StrV(Uri("git://a", "linux", TRUE, FALSE))

\* the same repository merged twice: the name is bumped although the
\* remote is bound to the very URI
C31_BumpedForSameUri ==
    /\ Len(trace) = 2
    /\ GitRefCalls = {1, 2}
    /\ trace[1].a = trace[2].a
    /\ trace[1].rname \o "_" = trace[2].rname
    /\ trace[2].url = StrV(trace[2].a)

(***************************************************************************)
(* Properties of the provenance list.                                      *)
(***************************************************************************)
\* has the source of this event been applied?
SourceApplied(e) ==
    \/ e.op = "merge_git_ref" /\ e.b \in {"ok", "0"}
    \/ e.op \in {"merge_patch_file", "merge_patchwork_patch"} /\ e.b = "ok"
\* the sources applied so far, in the order they were applied
AppliedSources == SelectSeq(trace, SourceApplied)
RowKind(op) ==
    CASE op = "merge_git_ref"    -> "git"
      [] op = "merge_patch_file" -> "patch"
      [] OTHER                   -> "patchwork"
BaseCheckedOut ==
    \E i \in DOMAIN trace : trace[i].op = "checkout" /\ trace[i].b # "raise"
Dumps == {i \in DOMAIN trace : trace[i].op = "dumpinfo" /\ "lines" \in DOMAIN trace[i]}
\* does the line start with the two fields?
RowLine(line, kind, source) ==
    \/ line = kind \o "," \o source
    \/ \E i \in DOMAIN ktree.info :
          Len(ktree.info[i]) = 3
          /\ line = kind \o "," \o source \o "," \o ktree.info[i][3]

\* C32: after any sequence of source-tree operations in one MERGE the
\* provenance list, and the CSV dumped from it, has the ("base", uri,
\* head) row first, followed by exactly one row per successfully applied
\* source in the order they were applied; a failed merge or a failed patch
\* application adds no row.
C32_ProvenanceOrder ==
    /\ ~BaseCheckedOut => ktree.info = <<>>
    /\ BaseCheckedOut =>
          /\ Len(ktree.info) = 1 + Len(AppliedSources)
          /\ ktree.info[1] = <<"base", Get(cfg.flat, "baserepo").s, Commit(0)>>
          /\ \A i \in DOMAIN AppliedSources :
                /\ ktree.info[i + 1][1] = RowKind(AppliedSources[i].op)
                /\ ktree.info[i + 1][2] = AppliedSources[i].a
    /\ \A d \in Dumps :
          /\ Len(trace[d].lines) = 1 + Len(AppliedSources)
          /\ RowLine(trace[d].lines[1], "base", Get(cfg.flat, "baserepo").s)
          /\ \A i \in DOMAIN AppliedSources :
                RowLine(trace[d].lines[i + 1], RowKind(AppliedSources[i].op),
                        AppliedSources[i].a)

\* a patchwork patch, then a local patch, then the dump: three lines in
\* the order of application
C32_Witness ==
    /\ pc = "dumped"
    /\ Len(trace) = 4
    /\ trace[2].op = "merge_patchwork_patch" /\ trace[2].b = "ok"
    /\ trace[3].op = "merge_patch_file" /\ trace[3].b = "ok"
    /\ Len(trace[4].lines) = 3
    /\ trace[4].lines[1] = "base,git://base," \o Commit(0)
    /\ trace[4].lines[3] = "patch," \o trace[3].a

\* a merge has failed and a patch has been applied after it: two rows
C32_WitnessFailedMerge ==
    /\ pc = "ktree"
    /\ Len(trace) = 3
    /\ trace[2].op = "merge_git_ref" /\ trace[2].b = "conflict"
    /\ trace[3].op = "merge_patch_file" /\ trace[3].b = "ok"
    /\ Len(ktree.info) = 2

(***************************************************************************)
(* Properties of parse_patchwork_url and RpcWrapper.                       *)
(***************************************************************************)
Negotiations == {i \in DOMAIN trace : trace[i].op = "parse_patchwork_url"}
RpcCalls == {i \in DOMAIN trace : trace[i].op = "rpc"}
Wrapped == \E i \in Negotiations : trace[i].rpc = "wrapped"
PlainVersionOk(e) == e.plain \in {VerList(<<1, 3, 0>>), VerInt(1)}
OutOfRangeFault(e) ==
    /\ e.plain.kind = "fault"
    /\ e.plain.code = 1
    /\ e.plain.text \in {"index out of range", "list index out of range"}
\* the wrapped client's own pw_rpc_version() is answered with 1010 in
\* front and a version that is not below 1010
WrappedVersionOk(e) ==
    /\ e.wrapped.kind = "versioned"
    /\ e.wrapped.first = 1010
    /\ ~(e.wrapped.value.kind = "int" /\ e.wrapped.value.n < 1010)
\* every call through the wrapped client carries 1010 first, and a reply
\* that does not start with 1010 raises
WrappedCallsChecked ==
    \A i \in RpcCalls :
        IF Wrapped
        THEN /\ Head(trace[i].sent) = 1010
             /\ Len(trace[i].sent) = 2
             /\ (trace[i].reply.kind = "versioned" /\ trace[i].reply.first # 1010)
                   => trace[i].b = "RpcProtocolMismatch"
             /\ (trace[i].reply.kind = "versioned" /\ trace[i].reply.first = 1010)
                   => trace[i].b = "" /\ trace[i].value = trace[i].reply.value
        ELSE /\ Len(trace[i].sent) = 1
             /\ trace[i].reply.kind # "fault"
                   => trace[i].b = "" /\ trace[i].value = trace[i].reply

\* C33 (as claimed): a version reply of [1,3,0] or 1 selects the plain
\* client; a fault with code 1 whose text contains "index out of range"
\* selects the wrapped client, in which every later call has 1010
\* prepended and every reply not starting with 1010 raises; any other
\* version reply or fault raises.
C33_Negotiation ==
    /\ \A i \in Negotiations :
          UrlMatches(trace[i].a) =>
            /\ PlainVersionOk(trace[i]) => trace[i].b = "" /\ trace[i].rpc = "plain"
            /\ OutOfRangeFault(trace[i]) =>
                  trace[i].b = "" /\ trace[i].rpc = "wrapped"
            /\ (~PlainVersionOk(trace[i]) /\ ~OutOfRangeFault(trace[i])) =>
                  trace[i].b # ""
    /\ WrappedCallsChecked

\* C33 (amended): as claimed, except that the fault selects the wrapped
\* client only when the wrapped client's own pw_rpc_version() is answered
\* with 1010 in front and a version not below 1010; otherwise
\* parse_patchwork_url raises.
C33_NegotiationChecksWrappedVersion ==
    /\ \A i \in Negotiations :
          /\ ~UrlMatches(trace[i].a) => trace[i].b # ""
          /\ UrlMatches(trace[i].a) =>
               /\ PlainVersionOk(trace[i]) =>
                     trace[i].b = "" /\ trace[i].rpc = "plain"
               /\ (OutOfRangeFault(trace[i]) /\ WrappedVersionOk(trace[i])) =>
                     trace[i].b = "" /\ trace[i].rpc = "wrapped"
               /\ (OutOfRangeFault(trace[i]) /\ ~WrappedVersionOk(trace[i])) =>
                     trace[i].b # ""
               /\ (~PlainVersionOk(trace[i]) /\ ~OutOfRangeFault(trace[i])) =>
                     trace[i].b # ""
    /\ WrappedCallsChecked

\* the wrapped client has been selected, has made a call that was
\* answered with 1010 and one that was not
C33_Witness ==
    /\ Wrapped
    /\ pc = "raised"
    /\ Len(trace) = 3
    /\ trace[2].b = "" /\ trace[2].value = StrV("mbox")
    /\ trace[3].b = "RpcProtocolMismatch"

\* the fault has been answered by wrapping, and the wrapped
\* pw_rpc_version() has returned 1009: parse_patchwork_url raises
C33_WitnessUnsupported ==
    /\ Len(trace) = 1
    /\ OutOfRangeFault(trace[1])
    /\ trace[1].wrapped = Versioned(1010, VerInt(1009))
    /\ trace[1].b = "Exception: unsupported version"

(***************************************************************************)
(* Properties of the data flow between the stages of skt.py all.           *)
(***************************************************************************)
BuiltArches == {a \in Arches : "tarpkg_" \o a \in SavedKeys}
PublishedArches == {a \in Arches : "buildurl_" \o a \in SavedKeys}
SubmittedArches ==
    {a \in Arches : \E i \in DOMAIN trace :
        trace[i].op = "prepare_and_submit" /\ trace[i].a = a}
\* the architectures whose tarball archdata knows
ArchdataTarballs ==
    {a \in Arches : /\ cfg.archdata.has
                    /\ a \in DOMAIN cfg.archdata.v
                    /\ Get(cfg.archdata.v[a], "tarpkg") # None}

\* C34: within a single all invocation without --junit, once RUN has
\* returned, every architecture for which BUILD has persisted
\* tarpkg_{arch} has been published by PUBLISH (buildurl_{arch} is
\* persisted) and has had a job submitted for it by RUN; when PUBLISH
\* starts, archdata holds the tarball of every architecture built.
C34_ArchDataFlows ==
    (RunsAll /\ ~JunitOn) =>
        /\ "retcode" \in SavedKeys =>
              /\ BuiltArches \subseteq PublishedArches
              /\ BuiltArches \subseteq SubmittedArches
        /\ pc \in {"publish_start", "publish_arch"} =>
              BuiltArches \subseteq ArchdataTarballs

\* what holds: PUBLISH and RUN work on the architectures of archdata as
\* load_config has built it from the state file, whatever BUILD has built
C34_OnlyLoadedArchdata ==
    RunsAll =>
        /\ PublishedArches \subseteq ArchdataTarballs
        /\ SubmittedArches \subseteq
              {a \in Arches : cfg.archdata.has /\ a \in DOMAIN cfg.archdata.v}

\* skt.py all has built a tarball, has published nothing, has submitted
\* no job and has persisted the retcode of a run without jobs
C34_BuiltButNeverPublished ==
    /\ RunsAll /\ ~JunitOn
    /\ "retcode" \in SavedKeys
    /\ BuiltArches # {}
    /\ PublishedArches = {}
    /\ SubmittedArches = {}

(***************************************************************************)
(* Properties of the junit wrapper in skt.py all.  Without --junit an      *)
(* exception of cmd_merge, cmd_build or cmd_publish ends the process with  *)
(* status 1; retcode is 0 until one of them raises, so the first test case *)
(* of these stages that carries a failure is the one of the stage that has *)
(* raised.                                                                 *)
(***************************************************************************)
FailedTestCases == {i \in DOMAIN cfg.testcases : cfg.testcases[i].failure}
RaisingStages == {"merge", "build", "publish"}
\* a stage before cmd_run has raised inside the wrapper
RaisedUnderJunit ==
    \E i \in FailedTestCases : cfg.testcases[i].name \in RaisingStages

\* C35: for skt.py all, --junit does not change the behaviour of the
\* pipeline: as without --junit, a stage that raises is the last stage
\* executed, nothing is persisted after it, and the process ends with
\* exit status 1.
C35_JunitTransparent ==
    (RunsAll /\ JunitOn /\ RaisedUnderJunit) =>
        /\ pc \in {"main_end", "exit"}
        /\ \A i \in FailedTestCases : i = Len(cfg.testcases)
        /\ pc = "exit" => exitcode.code = 1

\* what holds: when no test case carries a failure the wrapped run has
\* executed the four stages, has persisted the retcode of cmd_run and
\* ends with exit status 0, as it does without --junit
C35_SameWhenNothingFails ==
    (RunsAll /\ JunitOn /\ pc = "exit" /\ FailedTestCases = {}) =>
        /\ TestCaseNames = <<"merge", "build", "publish", "run">>
        /\ "retcode" \in SavedKeys
        /\ exitcode.code = 0

\* with --junit, cmd_merge has raised and the run is inside cmd_build
C35_StageAfterRaise ==
    /\ RunsAll /\ JunitOn
    /\ Len(cfg.testcases) = 1
    /\ cfg.testcases[1].name = "merge" /\ cfg.testcases[1].failure
    /\ pc \in BuildPcs

(***************************************************************************)
(* Properties of the failure annotations of the test cases.                *)
(***************************************************************************)
\* the stage of this test case has itself produced a non-zero return code
OwnRetcode(tc) ==
    \/ /\ tc.name = "run"
       /\ \E i \in DOMAIN trace :
             trace[i].op = "save" /\ trace[i].a = "retcode" /\ trace[i].b # "0"
    \/ /\ tc.name = "merge"
       /\ \E i \in DOMAIN trace : trace[i].op = "merge_git_ref" /\ trace[i].b = "1"
OwnFailure(tc) == tc.info = "exception" \/ OwnRetcode(tc)

\* C36: with --junit, the test case of a stage carries a failure
\* annotation only if that stage itself has raised or has itself produced
\* a non-zero return code: a failure recorded by an earlier stage does not
\* mark a later stage that has completed successfully as failed.
C36_FailureOnlyOwn ==
    JunitOn => \A i \in DOMAIN cfg.testcases :
                   cfg.testcases[i].failure => OwnFailure(cfg.testcases[i])

\* what holds: the first test case that carries a failure is the one of
\* a stage that has itself failed
C36_FirstFailureIsOwn ==
    JunitOn => \A i \in DOMAIN cfg.testcases :
                   (cfg.testcases[i].failure
                      /\ \A j \in 1..i - 1 : ~cfg.testcases[j].failure)
                   => OwnFailure(cfg.testcases[i])

\* cmd_merge has raised, and cmd_publish, which has returned without an
\* exception, is marked as failed with "Step finished with retcode: 1"
C36_PublishMarkedFailed ==
    /\ JunitOn
    /\ Len(cfg.testcases) >= 3
    /\ cfg.testcases[1].name = "merge" /\ cfg.testcases[1].info = "exception"
    /\ cfg.testcases[3].name = "publish" /\ cfg.testcases[3].info = "retcode"

(***************************************************************************)
(* Properties of the rc file when --state is not given.                    *)
(***************************************************************************)
StateDisabled == ~Truthy(Get(args.flat, "state"))

\* C37: when state persistence is not enabled (no --state), no command
\* modifies the rc file: save_state only updates memory, and cmd_cleanup
\* leaves the file, including an existing [state] section, unchanged.
C37_RcFileUntouched ==
    [][StateDisabled => disk' = disk]_vars

\* what holds: without --state no step other than cmd_cleanup modifies the
\* rc file, and cmd_cleanup modifies it only when it holds a [state]
\* section
C37_OnlyCleanupWrites ==
    [][(StateDisabled /\ ~(pc = "cleanup" /\ disk.hasState)) => disk' = disk]_vars

\* without --state, cmd_cleanup is about to run on an rc file that holds
\* a [state] section
C37_StateSectionBeforeCleanup ==
    /\ StateDisabled
    /\ pc = "cleanup"
    /\ disk.hasState
    /\ parser.hasState

(***************************************************************************)
(* Properties of the log files named by mergelog and buildlog_{arch}.      *)
(***************************************************************************)
\* the events this step has appended to the trace
NewEvents == {i \in DOMAIN trace' : i > Len(trace)}
IsLogKey(k) == k = "mergelog" \/ StartsWith(k, "buildlog_")
\* the failure that has made this step persist a log
FailedWith(op, outcomes) ==
    \E i \in NewEvents : trace'[i].op = op /\ trace'[i].b \in outcomes

\* C38: whenever mergelog or buildlog_{arch} is persisted in state, the
\* log file it names exists on disk at that moment, on every failure path
\* that persists it.
C38_LogExistsWhenPersisted ==
    [][Truthy(Get(cfg.flat, "state")) =>
          \A i \in NewEvents :
              (trace'[i].op = "save" /\ IsLogKey(trace'[i].a)) =>
                  trace'[i].b \in files']_vars

\* what holds: the log exists when the failure is one of a patchwork
\* patch or of the build proper, the two paths that write it
C38_LogExistsWhenWritten ==
    [][(FailedWith("merge_patchwork_patch", {"raise"})
          \/ FailedWith("mktgz", {"no tarball"})) =>
          \A i \in NewEvents :
              (trace'[i].op = "save" /\ IsLogKey(trace'[i].a)) =>
                  trace'[i].b \in files']_vars

\* a local patch has failed to apply: mergelog is in [state] and names a
\* file that does not exist
C38_MergelogWithoutFile ==
    /\ Truthy(Get(cfg.flat, "state"))
    /\ \E i \in DOMAIN trace :
          trace[i].op = "merge_patch_file" /\ trace[i].b = "raise"
    /\ \E i \in DOMAIN disk.state :
          disk.state[i][1] = "mergelog" /\ disk.state[i][2].s \notin files
    /\ ~CleanedUp

\* the config preparation has failed: buildlog_{arch} is in [state] and
\* names a file that does not exist
C38_BuildlogWithoutFile ==
    /\ Truthy(Get(cfg.flat, "state"))
    /\ \E i \in DOMAIN trace : trace[i].op = "mktgz" /\ trace[i].b = "prepare fails"
    /\ \E i \in DOMAIN disk.state :
          StartsWith(disk.state[i][1], "buildlog_")
          /\ disk.state[i][2].s \notin files
    /\ ~CleanedUp

(***************************************************************************)
(* Properties of save_state: what it leaves alone.                         *)
(***************************************************************************)
\* the keys this call was given, and those it was given a value for
GivenKeys == {trace'[i].a : i \in NewEvents}
GivenValues == {trace'[i].a : i \in {j \in NewEvents : trace'[j].b # "None"}}
\* the options of the section other than these, in file order
Others(sec, keys) == SelectSeq(sec, LAMBDA o : o[1] \notin keys)
OnDisk(d, k) == IF k \in SecKeys(d.state) THEN SecGet(d.state, k) ELSE None

\* C39: save_state changes only the keys it is given: every other key of
\* the [state] section and every other section of the rc file keep their
\* previous values, and a key passed with a null value is set to null in
\* memory while its previous value on disk, if any, is left in the file.
C39_SaveStateFrame ==
    [][pc = "loaded" =>
          \* in memory
          /\ \A k \in DOMAIN cfg.flat \ GivenKeys :
                k \in DOMAIN cfg'.flat /\ cfg'.flat[k] = cfg.flat[k]
          /\ \A k \in GivenKeys \ GivenValues : cfg'.flat[k] = None
          /\ \A k \in GivenValues : cfg'.flat[k] # None
          \* in the file
          /\ [disk' EXCEPT !.state = disk.state, !.hasState = disk.hasState] = disk
          /\ Others(disk'.state, GivenValues) = Others(disk.state, GivenValues)
          /\ \A k \in GivenKeys \ GivenValues : OnDisk(disk', k) = OnDisk(disk, k)
          /\ Truthy(Get(cfg.flat, "state")) =>
                \A k \in GivenValues : OnDisk(disk', k) = Str(cfg'.flat[k])
          /\ ~Truthy(Get(cfg.flat, "state")) => disk' = disk]_vars

\* with --state, basehead has been passed as null: it is null in memory
\* and the rc file still holds the value of the earlier run, next to the
\* other keys and sections
C39_Witness ==
    /\ pc = "loaded"
    /\ Truthy(Get(cfg.flat, "state"))
    /\ trace # <<>>
    /\ trace[Len(trace)].op = "save"
    /\ trace[Len(trace)].a = "basehead" /\ trace[Len(trace)].b = "None"
    /\ cfg.flat["basehead"] = None
    /\ OnDisk(disk, "basehead") = StrV("h0")
    /\ OnDisk(disk, "uid") = StrV("[baseline]")
    /\ disk.hasConfig /\ disk.publisher.has

\* with --state, retcode has been added to a [state] section that held
\* three keys, which are still there
C39_WitnessOtherKeys ==
    /\ pc = "loaded"
    /\ Truthy(Get(cfg.flat, "state"))
    /\ Len(trace) = 1
    /\ trace[1].a = "retcode"
    /\ Len(disk.state) = 4
    /\ disk.state[4] = <<"retcode", StrV("1")>>
====
